---- MODULE Spec2Model ----
(***************************************************************************)
(* The RCA "Brain" orchestrator of rca/brain: BrainEngine.run drives the   *)
(* stage graph supervisor -> mesh_scout -> git_scout -> metric_analyst ->  *)
(* rca_synthesizer -> critic -> (supervisor | fix_advisor) -> END over one *)
(* BrainState, then emits an RcaReport into the report repository.         *)
(*                                                                         *)
(* Scores (critic_score, fix_confidence, confidence, thresholds) are kept  *)
(* in hundredths: 0.86 is 86.  Texts are kept by kind: "" is the empty     *)
(* string, Text any non-empty string (what it says is not modelled).  The  *)
(* engine is modelled with mesh_driver = None and graph_index = None; the  *)
(* incident carries its mesh events as a list.  The graph runner is taken  *)
(* to execute the nodes along the edges for as long as the routing says (a *)
(* step limit of the runner itself, which is not part of this code, is not *)
(* modelled).                                                              *)
(*                                                                         *)
(* The differential indexer of rca/indexing: DifferentialIndexer           *)
(* ._index_file from the parsed nodes of a file on (hunk projection,       *)
(* status propagation, text assignment).  Texts of nodes are lists of      *)
(* lines, a line named by where it comes from.                             *)
(***************************************************************************)
EXTENDS Integers, Sequences, FiniteSets, TLC

\* ---------------------------------------------------------------- bounds
\* config.max_iterations ranges over 0..MaxIterationsBound.
MaxIterationsBound == 3
\* An LLM answer of the synthesizer holds at most this many hypotheses.
MaxHypotheses == 2
\* The long stub runs (StubSpec) have max_iterations = DeepIterations, enough
\* for the critic's decay to use up the stub confidences.
DeepIterations == 45
\* An incident carries at most this many mesh events.
MaxEvents == 2
\* A stage called directly is given at most this many suspect services.
MaxSuspects == 2
\* Source files have at most this many lines; hunks start within them.
MaxLine == 4
\* The parser returns at most this many nodes for a file.
MaxParsed == 2
\* A diff has at most this many hunks.
MaxHunks == 1
\* Status propagation is called on at most this many nodes.
MaxNodes == 3

\* -------------------------------------------------------- program constants
DefaultCriticThreshold == 80
DefaultFixConfidenceThreshold == 75
DeployConfidence == 86
NoDeployConfidence == 62
FallbackConfidence == 30
DecayPerIteration == 2
DefaultLlmScore == 50
FixFactorTenths == 9

\* The supervisor is never entered more often than this in the model; the
\* routing of the code keeps iteration below it (see RunBounded).
IterationCap == MaxIterationsBound + DeepIterations + 3

\* ------------------------------------------------------------- input sets
IncidentIds == {"inc-1", "inc-77"}
Service == "checkout-api"
DeploymentIds == {"none", "deploy-1"}
CriticThresholds == {DefaultCriticThreshold, 90}
FixThresholds == {50, DefaultFixConfidenceThreshold}

\* Upstream services of the mesh, and a service other than the incident's.
PaymentApi == "payment-api"
InventoryApi == "inventory-api"
OtherService == "cart-api"

\* A mesh event: the calling service, the upstream ("" when absent or
\* blank), where its ts lies relative to incident.started_at ("old": more
\* than 30 minutes before; "baseline": in the 30 minutes before; "current":
\* at or after; "unparsed": no string or no ISO timestamp), and the
\* latency_ms, retry_count and response_code it reports.
MeshEvent(service, upstream, when, latency_ms, retry_count, response_code) ==
    [service |-> service, upstream |-> upstream, when |-> when,
     latency_ms |-> latency_ms, retry_count |-> retry_count,
     response_code |-> response_code]

MeshEvents ==
    {MeshEvent(Service, PaymentApi, "current", 100, 0, 503),
     MeshEvent(Service, PaymentApi, "current", 100, 0, 200),
     MeshEvent(Service, InventoryApi, "current", 600, 0, 200),
     MeshEvent(Service, PaymentApi, "baseline", 40, 0, 200),
     MeshEvent(Service, InventoryApi, "old", 600, 6, 503),
     MeshEvent(Service, InventoryApi, "unparsed", 100, 6, 503),
     MeshEvent(Service, "", "current", 100, 0, 503),
     MeshEvent(Service, Service, "current", 100, 3, 200),
     MeshEvent(OtherService, PaymentApi, "current", 100, 0, 503)}

MeshEventLists == UNION {[1..n -> MeshEvents] : n \in 0..MaxEvents}

NoExc == "none"
\* A non-empty string, and a JSON value that is truthy but no string.
Text == "text"
NonString == "<non-string>"

\* What llm.generate can do: raise, or return the stripped text.
GenerateOutcomes == {"raise", "", Text}
\* Confidence values an LLM hypothesis item can carry (120 is out of range).
RawConfidences == {40, 95, 120}
RawHypothesisLists ==
    UNION {[1..n -> RawConfidences] : n \in 0..MaxHypotheses}
\* generate_json of the synthesizer: raise (call failed or text is no JSON),
\* or a parsed object whose "hypotheses" is one of RawHypothesisLists.
SynthesizerOutcomes ==
    {[kind |-> "raise", items |-> <<>>]}
        \cup {[kind |-> "json", items |-> l] : l \in RawHypothesisLists}
\* A JSON score field: absent ("missing"), not convertible by float()
\* ("bad"), or a number ("num", in hundredths, possibly outside [0,100]).
MissingScore == [kind |-> "missing", value |-> 0]
RawScores ==
    {MissingScore, [kind |-> "bad", value |-> 0]}
        \cup {[kind |-> "num", value |-> v] : v \in {-20, 85, 130}}
\* generate_json of the critic: raise, or a parsed object with a score and
\* a reasoning that is absent/empty ("missing"), a text or a non-string.
CriticOutcomes ==
    {[kind |-> "raise", score |-> MissingScore, reasoning |-> "missing"]}
        \cup {[kind |-> "json", score |-> s, reasoning |-> r] :
                 s \in RawScores, r \in {"missing", Text, NonString}}
\* generate_json of the fix advisor: raise, or a parsed object.  Its "fix"
\* and "fix_reasoning" go through str(...).strip() or a default text, so
\* whatever they hold the stage writes a non-empty text.
FixOutcomes ==
    {[kind |-> "raise", fix_confidence |-> MissingScore]}
        \cup {[kind |-> "json", fix_confidence |-> c] : c \in RawScores}

\* ------------------------------------------------------------------ state
VARIABLES
    config,        \* BrainEngineConfig of the engine
    incident,      \* the ApprovedIncident handed to run
    state,         \* the BrainState of the run
    pc,            \* the stage (or step of run) that executes next
    exc,           \* str(exc) of the exception a stage raised, or NoExc
    report,        \* the RcaReport built by run, or NoReport
    repository,    \* InMemoryReportRepository._reports
    logFile,       \* content of the report log file, or NoReport
    supervisorEntries,  \* history: number of supervisor entries of the run
    lastStage,     \* history: the stage that executed last
    parseFailed,   \* history: the JSON answer to the last stage was unusable
    parseFailures, \* history: number of unusable JSON answers of the run
    index_pc,      \* DifferentialIndexer._index_file: the step that runs next
    raw_diff,      \* the diff of the file at the commit (get_diff)
    file_content,  \* the file at the commit (get_file): its number of lines
    upsert_nodes,  \* the nodes of the file, as _index_file holds them
    service_repo_map,  \* InMemoryServiceRepoMap._map: the registered services
    repo,          \* what the RepositoryAdapter and the parser answer
    graph_store,   \* the nodes in the property graph store
    commit_pc,     \* DifferentialIndexer.index_commit: the step that runs next
    request,       \* the DifferentialIndexerRequest of the call
    file_paths,    \* index_commit: the paths the loop has still to index
    total_upserted,    \* index_commit: the count so far
    diagnostics,   \* index_commit: the diagnostics so far
    store_calls,   \* history: outcomes of the store calls of this index_commit
    written,       \* history: the node ids this index_commit upserted
    store_before,  \* history: the store when index_commit was called
    adapter_calls, \* history: number of RepositoryAdapter calls so far
    index_calls,   \* history: the index_commit calls that returned
    backfill,      \* BackfillRunner.run / onboard_service: the call's locals
    props,         \* _upsert: the metadata of the node being converted
    safe_props,    \* _upsert: what _sanitize_properties made of it
    relations,     \* the CONTAINS edges in the property graph store
    relations_raised,  \* history: the relation step of the last _upsert raised
    runs           \* concurrent calls of BrainEngine.run: each call's locals

brainVars == <<config, incident, state, pc, exc, report, repository, logFile,
               supervisorEntries, lastStage, parseFailed, parseFailures>>
indexVars == <<index_pc, raw_diff, file_content, upsert_nodes>>
storeVars == <<service_repo_map, repo, graph_store, commit_pc, request,
               file_paths, total_upserted, diagnostics, store_calls, written,
               store_before, adapter_calls, index_calls, backfill,
               props, safe_props, relations, relations_raised>>
vars == <<brainVars, indexVars, storeVars, runs>>

Min(a, b) == IF a < b THEN a ELSE b
Max(a, b) == IF a > b THEN a ELSE b

SeqToSet(s) == {s[i] : i \in 1..Len(s)}

\* Mutant: duplicates are kept.
_dedupeNot(items) == items

\* list(dict.fromkeys(items)): first occurrences, in order.
RECURSIVE _dedupe(_)
_dedupe(items) ==
    IF items = <<>> THEN <<>>
    ELSE LET init == _dedupe(SubSeq(items, 1, Len(items) - 1))
             last == items[Len(items)]
         IN IF last \in SeqToSet(init) THEN init ELSE Append(init, last)

NoReport == [status |-> "none"]

RcaReport(id, status, cs, fc, hyps, errs, iter) ==
    [incident_id |-> id, status |-> status, critic_score |-> cs,
     fix_confidence |-> fc, hypotheses |-> hyps, errors |-> errs,
     iteration |-> iter]

\* A report left in the repository by an earlier run for inc-1.
StaleReport ==
    RcaReport("inc-1", "escalated", 0, 0, <<>>, <<"stale">>, 0)

\* BrainState(incident=..., max_iterations=..., critic_threshold=...)
InitialBrainState(cfg) ==
    [iteration |-> 0,
     max_iterations |-> cfg.max_iterations,
     critic_threshold |-> cfg.critic_threshold,
     evidence_refs |-> <<>>,
     hypotheses |-> <<>>,
     critic_score |-> 0,
     status |-> "running",
     errors |-> <<>>,
     task_plan |-> "",
     git_summary |-> "",
     metrics_summary |-> "",
     critic_reasoning |-> "",
     suspect_services |-> <<>>,
     suspect_edges |-> <<>>,
     mesh_summary |-> "",
     fix_summary |-> "",
     fix_confidence |-> 0,
     fix_reasoning |-> ""]

\* BrainEngineConfig.mesh_driver is None; graph_index is None.
NoDriver == [present |-> FALSE, raises |-> FALSE, rows |-> <<>>]
NoIndex == [present |-> FALSE, found |-> {}, raises |-> {}]

ConfigsOver(iterations, llms) ==
    [critic_threshold : CriticThresholds,
     fix_confidence_threshold : FixThresholds,
     max_iterations : iterations,
     llm : llms,
     report_log_path : BOOLEAN,
     mesh_driver : {NoDriver},
     graph_index : {NoIndex}]

Configs == ConfigsOver(0..MaxIterationsBound, BOOLEAN)
\* No LLM configured (llm_config is None or has no api_key).
StubConfigs == ConfigsOver((0..MaxIterationsBound) \cup {DeepIterations}, {FALSE})

\* Incidents without mesh events in extra_context.
Incidents ==
    [incident_id : IncidentIds, deployment_id : DeploymentIds,
     mesh_events : {<<>>}]

\* No concurrent calls of run.
NoRuns == <<>>

\* No file is being indexed.
NoDiff == [added |-> FALSE, parsed |-> TRUE, hunks |-> <<>>]
IndexerIdle ==
    /\ index_pc = "idle"
    /\ raw_diff = NoDiff
    /\ file_content = 0
    /\ upsert_nodes = <<>>

\* No request: index_commit is not running.
NoRequest == [service |-> "", commit_sha |-> "", file_paths |-> <<>>]
\* A repository adapter that is never asked.
NoRepo == [commits |-> <<>>]
\* No node is being converted.
NoProps == <<>>
NotSanitized == [raised |-> "", clean |-> <<>>, done |-> FALSE]

\* BackfillRunner is not running.
NoBackfill ==
    [pc |-> "idle", entry |-> "", service |-> "", batch_size |-> 0,
     commit_shas |-> <<>>, batch_start |-> 0, batch |-> <<>>,
     total_commits |-> 0, total_nodes |-> 0, diagnostics |-> <<>>,
     adapter_calls |-> 0, raised |-> ""]

\* No service registered, an empty graph store, no index_commit call.
StoreIdle ==
    /\ service_repo_map = {}
    /\ repo = NoRepo
    /\ graph_store = {}
    /\ commit_pc = "idle"
    /\ request = NoRequest
    /\ file_paths = <<>>
    /\ total_upserted = 0
    /\ diagnostics = <<>>
    /\ store_calls = <<>>
    /\ written = {}
    /\ store_before = {}
    /\ adapter_calls = 0
    /\ index_calls = <<>>
    /\ backfill = NoBackfill
    /\ props = NoProps
    /\ safe_props = NotSanitized
    /\ relations = {}
    /\ relations_raised = FALSE

InitOver(configs) ==
    /\ config \in configs
    /\ incident \in Incidents
    /\ state = InitialBrainState(config)
    /\ pc = "supervisor"
    /\ exc = NoExc
    /\ report = NoReport
    /\ repository = [i \in IncidentIds |->
                        IF i = "inc-1" THEN StaleReport ELSE NoReport]
    /\ logFile = NoReport
    /\ supervisorEntries = 0
    /\ lastStage = "none"
    /\ parseFailed = FALSE
    /\ parseFailures = 0
    /\ runs = NoRuns
    /\ IndexerIdle
    /\ StoreIdle

Init == InitOver(Configs)
\* Every configuration of Init, and the no-LLM ones with a deep iteration bound.
StubInit == InitOver(Configs \cup StubConfigs)

\* ------------------------------------------------- per-stage validators
\* (rca/brain/models.py: a stage raises ValidationError when its model is FALSE)
IsText(x) == x \notin {"", NonString}
InUnit(x) == 0 <= x /\ x <= 100

MeshScoutOutput(suspect_services, mesh_summary) ==
    Len(suspect_services) >= 1 /\ IsText(mesh_summary)

SupervisorOutput(task_plan, evidence_refs) ==
    IsText(task_plan) /\ Len(evidence_refs) >= 1

GitScoutOutput(git_summary) == IsText(git_summary)

MetricAnalystOutput(metrics_summary, evidence_refs) ==
    IsText(metrics_summary) /\ Len(evidence_refs) >= 1

\* Mutant: min_length is missing.
SynthesizerOutputAny(hypotheses) == TRUE
SynthesizerOutput(hypotheses) == Len(hypotheses) >= 1

CriticOutput(critic_score, critic_reasoning) ==
    InUnit(critic_score) /\ IsText(critic_reasoning)

FixAdvisorOutput(fix_summary, fix_confidence, fix_reasoning) ==
    IsText(fix_summary) /\ InUnit(fix_confidence) /\ IsText(fix_reasoning)

\* Hypothesis(...): confidence is Field(ge=0.0, le=1.0).
HypothesisValid(confidence) == InUnit(confidence)

Hypothesis(title, confidence) == [title |-> title, confidence |-> confidence]

\* What a stage hands back: the state it wrote and the exception it raised.
Returned(s) == [state |-> s, exc |-> NoExc]
Raised(s, e) == [state |-> s, exc |-> e]
\* Mutant: the validator's verdict is ignored.
ValidatedNot(s, ok, model) == Returned(s)
Validated(s, ok, model) ==
    IF ok THEN Returned(s) ELSE Raised(s, model)

\* ------------------------------------------------------------ the stages
\* Each stage is the function of nodes.py: from the state it is given and
\* the answer of the LLM call it makes (when an LLM is configured) to the
\* state it wrote and the exception it raised.

RECURSIVE Sum(_)
Sum(numbers) ==
    IF numbers = <<>> THEN 0 ELSE numbers[1] + Sum(Tail(numbers))

\* 2 * statistics.median(values) of a non-empty list: the middle value
\* twice, or the sum of the two middle values.
TwiceMedian(values) ==
    LET sorted == SortSeq(values, LAMBDA a, b : a < b)
        n == Len(values)
    IN sorted[(n + 1) \div 2] + sorted[(n + 2) \div 2]

\* The events the loop of _find_suspects_from_mesh does not skip before it
\* looks at the window: of the incident's service, with a parsed ts and a
\* non-blank upstream.
UsableEvents(events) ==
    SelectSeq(events, LAMBDA e : /\ e.service = Service
                                 /\ e.when # "unparsed"
                                 /\ e.upstream # "")

\* The degradation test on the stats of one upstream (count >= 1).
Degraded(calls, baseline_latency) ==
    LET count == Len(calls)
        err == Len(SelectSeq(calls, LAMBDA e : e.response_code >= 500))
        lat_sum == Sum([i \in 1..count |-> calls[i].latency_ms])
        retry_sum == Sum([i \in 1..count |-> calls[i].retry_count])
    IN \/ 10 * err >= count
       \/ retry_sum >= 3 * count
       \/ /\ baseline_latency # <<>>
          /\ TwiceMedian(baseline_latency) > 0
          /\ lat_sum >= TwiceMedian(baseline_latency) * count
       \/ lat_sum >= 500 * count

\* _find_suspects_from_mesh(state): the degraded upstreams of the incident's
\* service in the incident window, in order of first call, and their edges.
_find_suspects_from_mesh(s) ==
    LET usable == UsableEvents(incident.mesh_events)
        baseline == SelectSeq(usable, LAMBDA e : e.when = "baseline")
        baseline_latency == [i \in 1..Len(baseline) |-> baseline[i].latency_ms]
        current == SelectSeq(usable, LAMBDA e : e.when = "current")
        upstreams == _dedupe([i \in 1..Len(current) |-> current[i].upstream])
        callsTo(u) == SelectSeq(current, LAMBDA e : e.upstream = u)
        suspects == SelectSeq(upstreams,
                       LAMBDA u : Degraded(callsTo(u), baseline_latency))
    IN [suspects |-> _dedupe(suspects),
        edges |-> _dedupe([i \in 1..Len(suspects) |-> <<Service, suspects[i]>>])]

supervisor(s, inc, llm, out) ==
    LET ss == IF s.suspect_services = <<>> THEN <<Service>>
              ELSE IF Service \notin SeqToSet(s.suspect_services)
                   THEN <<Service>> \o s.suspect_services
                   ELSE s.suspect_services
        s1 == [s EXCEPT
                 !.suspect_services = _dedupe(ss),
                 !.evidence_refs =
                     _dedupe(Append(@, <<"incident", inc.incident_id>>))]
    IN IF llm /\ out = "raise" THEN Raised(s1, "supervisor: llm.generate failed")
       ELSE LET s2 == [s1 EXCEPT !.task_plan = IF llm THEN out ELSE Text]
            IN Validated(s2, SupervisorOutput(s2.task_plan, s2.evidence_refs),
                         "ValidationError: SupervisorOutput")

\* mesh_scout(state, mesh_driver=None): the raw-event fallback.
mesh_scout(s) ==
    LET found == _find_suspects_from_mesh(s)
        s1 == IF found.suspects # <<>>
              THEN [s EXCEPT
                      !.suspect_services = _dedupe(<<Service>> \o found.suspects),
                      !.suspect_edges = found.edges,
                      !.mesh_summary = Text]
              ELSE [s EXCEPT
                      !.suspect_services = _dedupe(<<Service>>),
                      !.mesh_summary = Text]
        s2 == [s1 EXCEPT !.evidence_refs = _dedupe(@)]
    IN Validated(s2, MeshScoutOutput(s2.suspect_services, s2.mesh_summary),
                 "ValidationError: MeshScoutOutput")

\* A row of the mesh query: a dependency of the incident's service and the
\* stats of the observed calls to it (0 where the query gives null).
MeshRow(svc, error_count, call_count, avg_latency_ms) ==
    [svc |-> svc, error_count |-> error_count, call_count |-> call_count,
     avg_latency_ms |-> avg_latency_ms]

\* score(a) > score(b) for observed rows, where
\* score = (error_count / call_count) * 10 + avg_latency_ms / 100.
ScoreAbove(a, b) ==
    (1000 * a.error_count + a.avg_latency_ms * a.call_count) * b.call_count
        > (1000 * b.error_count + b.avg_latency_ms * b.call_count)
             * a.call_count

\* Mutant: the rows stay in the order of the query.
RankedObservedNot(rows) == rows

\* sorted(suspects_observed, key=lambda x: -x[1]): by descending score,
\* rows of equal score in the order of the query.
RECURSIVE RankedObserved(_)
RankedObserved(rows) ==
    IF rows = <<>> THEN <<>>
    ELSE LET init == RankedObserved(SubSeq(rows, 1, Len(rows) - 1))
             last == rows[Len(rows)]
             k == Cardinality({i \in 1..Len(init) :
                                  ~ScoreAbove(last, init[i])})
         IN SubSeq(init, 1, k) \o <<last>> \o SubSeq(init, k + 1, Len(init))

\* mesh_scout(state, mesh_driver): the graph traversal when there is a
\* driver and its session answers, the raw-event fallback otherwise.
mesh_scout_via(s, driver) ==
    IF ~driver.present \/ driver.raises THEN mesh_scout(s)
    ELSE LET rows == driver.rows
             observed == SelectSeq(rows, LAMBDA r : r.call_count > 0)
             arch_only == SelectSeq(rows, LAMBDA r : ~(r.call_count > 0))
             names(q) == [i \in 1..Len(q) |-> q[i].svc]
             ranked_observed == names(RankedObserved(observed))
             refs == [i \in 1..Len(rows) |->
                         IF rows[i].call_count > 0
                         THEN <<"mesh:observed", rows[i].svc>>
                         ELSE <<"mesh:depends_on", rows[i].svc>>]
             s1 == [s EXCEPT
                      !.suspect_services =
                          _dedupe(<<Service>> \o ranked_observed
                                     \o names(arch_only)),
                      !.suspect_edges =
                          [i \in 1..Len(ranked_observed) |->
                              <<Service, ranked_observed[i]>>],
                      !.mesh_summary = Text,
                      !.evidence_refs = _dedupe(@ \o refs)]
         IN IF MeshScoutOutput(s1.suspect_services, s1.mesh_summary)
            THEN Returned(s1) ELSE mesh_scout(s1)

\* git_scout(state, llm, graph_index=None).
git_scout(s, inc, llm, out) ==
    LET s1 == IF inc.deployment_id # "none"
              THEN [s EXCEPT !.evidence_refs =
                                Append(@, <<"deploy", inc.deployment_id>>)]
              ELSE s
    IN IF llm /\ out = "raise" THEN Raised(s1, "git_scout: llm.generate failed")
       ELSE LET s2 == [s1 EXCEPT !.git_summary =
                          IF llm THEN out ELSE Text]
            IN Validated(s2, GitScoutOutput(s2.git_summary),
                         "ValidationError: GitScoutOutput")

metric_analyst(s, inc, llm, out) ==
    LET s0 == [s EXCEPT !.evidence_refs = Append(@, <<"metric", Service>>)]
        found == _find_suspects_from_mesh(s0)
        logs(svcs) == [i \in 1..Len(svcs) |-> <<"logs", svcs[i]>>]
        both(svcs) == [i \in 1..(2 * Len(svcs)) |->
                          IF i % 2 = 1 THEN <<"mesh-suspect", svcs[(i + 1) \div 2]>>
                          ELSE <<"logs", svcs[i \div 2]>>]
        s1 == IF Len(s0.suspect_services) <= 1
              THEN IF found.suspects # <<>>
                   THEN [s0 EXCEPT
                           !.suspect_services =
                               _dedupe(<<Service>> \o @ \o found.suspects),
                           !.suspect_edges = _dedupe(@ \o found.edges),
                           !.evidence_refs = @ \o both(found.suspects)]
                   ELSE s0
              ELSE [s0 EXCEPT !.evidence_refs =
                                 @ \o logs(Tail(s0.suspect_services))]
        s2 == [s1 EXCEPT !.evidence_refs = _dedupe(@)]
    IN IF llm /\ out = "raise"
       THEN Raised(s2, "metric_analyst: llm.generate failed")
       ELSE LET s3 == [s2 EXCEPT !.metrics_summary =
                          IF llm THEN out ELSE Text]
            IN Validated(s3,
                         MetricAnalystOutput(s3.metrics_summary, s3.evidence_refs),
                         "ValidationError: MetricAnalystOutput")

\* _query_scopes(state) (the names of the model are never blank).
_query_scopes(s) ==
    IF s.suspect_services = <<>> THEN <<Service>>
    ELSE _dedupe(s.suspect_services)

\* git_scout(state, llm, graph_index): with a graph index the retriever is
\* asked once per scope; a scope with results adds its graph ref; a
\* retrieve that raises ends the loop and leaves the refs added so far.
git_scout_via(s, inc, llm, out, graph_index) ==
    IF ~graph_index.present THEN git_scout(s, inc, llm, out)
    ELSE LET s1 == IF inc.deployment_id # "none"
                   THEN [s EXCEPT !.evidence_refs =
                                     Append(@, <<"deploy", inc.deployment_id>>)]
                   ELSE s
             scopes == _query_scopes(s1)
             failing == {i \in 1..Len(scopes) : scopes[i] \in graph_index.raises}
             asked == IF failing = {} THEN scopes
                      ELSE SubSeq(scopes, 1,
                                  (CHOOSE i \in failing :
                                      \A j \in failing : i <= j) - 1)
             hits == SelectSeq(asked, LAMBDA svc : svc \in graph_index.found)
             refs == s1.evidence_refs
                        \o [i \in 1..Len(hits) |-> <<"graph", hits[i]>>]
             s2 == [s1 EXCEPT !.evidence_refs =
                                 IF failing = {} THEN _dedupe(refs) ELSE refs]
         IN IF llm /\ out = "raise"
            THEN Raised(s2, "git_scout: llm.generate failed")
            ELSE LET s3 == [s2 EXCEPT !.git_summary =
                               IF llm THEN out ELSE Text]
                 IN Validated(s3, GitScoutOutput(s3.git_summary),
                              "ValidationError: GitScoutOutput")

\* The try block of rca_synthesizer raises: generate_json raised, or an item
\* of the answer is rejected by Hypothesis(...).
SynthesizerJsonUnusable(out) ==
    \/ out.kind = "raise"
    \/ \E i \in 1..Len(out.items) : ~HypothesisValid(out.items[i])

\* The try block of critic / fix_advisor raises: generate_json raised, or
\* float() rejects the score.
ScoreJsonUnusable(kind, score) == kind = "raise" \/ score.kind = "bad"

DeployHypothesis == Hypothesis("Recent rollout regression", DeployConfidence)
NoDeployHypothesis ==
    Hypothesis("Traffic or dependency instability", NoDeployConfidence)
FallbackHypothesis == Hypothesis("Unknown root cause", FallbackConfidence)

\* Mutant: the fallback does not record the error.
SynthesizerFallbackSilent(s) ==
    [s EXCEPT !.hypotheses = <<FallbackHypothesis>>]

\* The except branch of rca_synthesizer.
SynthesizerFallback(s) ==
    [s EXCEPT !.errors = Append(@, "synthesizer_parse_error"),
              !.hypotheses = <<FallbackHypothesis>>]

rca_synthesizer(s, inc, llm, out) ==
    LET s1 ==
          IF llm
          THEN IF SynthesizerJsonUnusable(out)
               THEN SynthesizerFallback(s)
               ELSE [s EXCEPT !.hypotheses =
                        [i \in 1..Len(out.items) |->
                            Hypothesis("llm-hypothesis", out.items[i])]]
          ELSE [s EXCEPT !.hypotheses =
                   IF inc.deployment_id # "none"
                   THEN <<DeployHypothesis>> ELSE <<NoDeployHypothesis>>]
    IN Validated(s1, SynthesizerOutput(s1.hypotheses),
                 "ValidationError: SynthesizerOutput")

\* max(state.hypotheses, key=lambda h: h.confidence): the first maximum.
TopHypothesis(hyps) ==
    LET best == CHOOSE i \in 1..Len(hyps) :
                   /\ \A j \in 1..Len(hyps) :
                         hyps[j].confidence <= hyps[i].confidence
                   /\ \A j \in 1..(i - 1) :
                         hyps[j].confidence < hyps[i].confidence
    IN hyps[best]

\* Mutant: no clamp.
ClampNot(x) == x

\* max(0.0, min(1.0, x))
Clamp(x) == Max(0, Min(100, x))

\* Mutant: the decay counts the first iteration too.
StubCriticScoreSteep(top, iteration) ==
    Clamp(top.confidence - Max(0, DecayPerIteration * iteration))

\* Mutant: no decay.
StubCriticScoreNoDecay(top, iteration) == Clamp(top.confidence)

\* The stub score of the critic: top.confidence less the iteration decay.
StubCriticScore(top, iteration) ==
    LET decay == Max(0, DecayPerIteration * (iteration - 1))
    IN Clamp(top.confidence - decay)

critic(s, llm, out) ==
    IF s.hypotheses = <<>>
    THEN Returned([s EXCEPT !.critic_score = 0])
    ELSE
      LET top == TopHypothesis(s.hypotheses)
          s1 ==
            IF llm
            THEN IF ScoreJsonUnusable(out.kind, out.score)
                 THEN [s EXCEPT
                         !.errors = Append(@, "critic_parse_error"),
                         !.critic_score = StubCriticScore(top, s.iteration),
                         !.critic_reasoning = Text]
                 ELSE [s EXCEPT
                         !.critic_score =
                             Clamp(IF out.score.kind = "missing"
                                   THEN DefaultLlmScore ELSE out.score.value),
                         !.critic_reasoning =
                             IF out.reasoning = "missing"
                             THEN Text ELSE out.reasoning]
            ELSE [s EXCEPT
                    !.critic_score = StubCriticScore(top, s.iteration),
                    !.critic_reasoning = Text]
      IN Validated(s1, CriticOutput(s1.critic_score, s1.critic_reasoning),
                   "ValidationError: CriticOutput")

RECURSIVE SumConfidence(_)
SumConfidence(hyps) ==
    IF hyps = <<>> THEN 0
    ELSE hyps[1].confidence + SumConfidence(Tail(hyps))

\* round(num / den) to the nearest integer, ties to even (Python round).
RoundDiv(num, den) ==
    LET q == num \div den
        r == num % den
    IN IF 2 * r > den THEN q + 1
       ELSE IF 2 * r < den THEN q
       ELSE IF q % 2 = 0 THEN q ELSE q + 1

\* round(min(1.0, avg_confidence * 0.9), 2), in hundredths.
StubFixConfidence(hyps) ==
    Min(100, RoundDiv(FixFactorTenths * SumConfidence(hyps), 10 * Len(hyps)))

fix_advisor(s, llm, out) ==
    IF s.hypotheses = <<>>
    THEN Returned([s EXCEPT
                     !.fix_summary = Text,
                     !.fix_confidence = 0,
                     !.fix_reasoning = Text])
    ELSE
      LET s1 ==
            IF llm
            THEN IF ScoreJsonUnusable(out.kind, out.fix_confidence)
                 THEN [s EXCEPT
                         !.errors = Append(@, "fix_advisor_parse_error"),
                         !.fix_summary = Text,
                         !.fix_confidence = 0,
                         !.fix_reasoning = Text]
                 ELSE [s EXCEPT
                         !.fix_summary = Text,
                         !.fix_confidence =
                             Clamp(IF out.fix_confidence.kind = "missing"
                                   THEN DefaultLlmScore
                                   ELSE out.fix_confidence.value),
                         !.fix_reasoning = Text]
            ELSE [s EXCEPT
                    !.fix_confidence = StubFixConfidence(s.hypotheses),
                    !.fix_summary = Text,
                    !.fix_reasoning = Text]
      IN Validated(s1,
                   FixAdvisorOutput(s1.fix_summary, s1.fix_confidence,
                                    s1.fix_reasoning),
                   "ValidationError: FixAdvisorOutput")

\* ------------------------------------------------------------ the engine
\* The answers the LLM can give a stage: none when no LLM is configured.
Answers(outcomes, none) == IF config.llm THEN outcomes ELSE {none}
NoJson == [kind |-> "no-llm"]

\* Mutant: the iteration test is > instead of >=.
_route_after_critic_late(s, cfg) ==
    IF s.critic_score >= cfg.critic_threshold THEN "done"
    ELSE IF s.iteration > cfg.max_iterations THEN "done"
    ELSE "refine"

\* Mutant: the iteration test is missing.
_route_after_critic_unbounded(s, cfg) ==
    IF s.critic_score >= cfg.critic_threshold THEN "done" ELSE "refine"

\* Conditional edge after critic: "done" -> fix_advisor, "refine" -> supervisor.
_route_after_critic(s, cfg) ==
    IF s.critic_score >= cfg.critic_threshold THEN "done"
    ELSE IF s.iteration >= cfg.max_iterations THEN "done"
    ELSE "refine"

\* A node of the graph ran: its result becomes the state; an exception
\* leaves the graph for the except block of run.
Step(stage, r, next) ==
    /\ state' = r.state
    /\ exc' = r.exc
    /\ pc' = IF r.exc = NoExc THEN next ELSE "except"
    /\ lastStage' = stage
    /\ UNCHANGED <<config, incident, report, repository, logFile>>
    /\ UNCHANGED <<indexVars, storeVars, runs>>

\* History of the JSON answers: whether this one was unusable, and the count.
Parsed(unusable) ==
    /\ parseFailed' = unusable
    /\ parseFailures' = IF unusable THEN parseFailures + 1 ELSE parseFailures

\* Mutant: the copy keeps the old iteration.
IncrementIterationNot(s) == s

\* state.model_copy(update={"iteration": state.iteration + 1})
IncrementIteration(s) == [s EXCEPT !.iteration = @ + 1]

_supervisor_node ==
    /\ pc = "supervisor"
    /\ state.iteration < IterationCap
    /\ \E out \in Answers(GenerateOutcomes, "no-llm") :
          LET updated == IncrementIteration(state)
          IN Step("supervisor", supervisor(updated, incident, config.llm, out),
                  "mesh_scout")
    /\ supervisorEntries' = supervisorEntries + 1
    /\ parseFailed' = FALSE
    /\ UNCHANGED parseFailures

\* Mutant: the edge from mesh_scout leads to metric_analyst.
_mesh_scout_node_skip ==
    /\ pc = "mesh_scout"
    /\ Step("mesh_scout", mesh_scout_via(state, config.mesh_driver),
            "metric_analyst")
    /\ parseFailed' = FALSE
    /\ UNCHANGED parseFailures
    /\ UNCHANGED supervisorEntries

_mesh_scout_node ==
    /\ pc = "mesh_scout"
    /\ Step("mesh_scout", mesh_scout_via(state, config.mesh_driver),
            "git_scout")
    /\ parseFailed' = FALSE
    /\ UNCHANGED parseFailures
    /\ UNCHANGED supervisorEntries

_git_scout_node ==
    /\ pc = "git_scout"
    /\ \E out \in Answers(GenerateOutcomes, "no-llm") :
          Step("git_scout",
               git_scout_via(state, incident, config.llm, out,
                             config.graph_index),
               "metric_analyst")
    /\ parseFailed' = FALSE
    /\ UNCHANGED parseFailures
    /\ UNCHANGED supervisorEntries

_metric_analyst_node ==
    /\ pc = "metric_analyst"
    /\ \E out \in Answers(GenerateOutcomes, "no-llm") :
          Step("metric_analyst",
               metric_analyst(state, incident, config.llm, out),
               "rca_synthesizer")
    /\ parseFailed' = FALSE
    /\ UNCHANGED parseFailures
    /\ UNCHANGED supervisorEntries

_rca_synthesizer_node ==
    /\ pc = "rca_synthesizer"
    /\ \E out \in Answers(SynthesizerOutcomes, NoJson) :
          /\ Step("rca_synthesizer",
                  rca_synthesizer(state, incident, config.llm, out), "critic")
          /\ Parsed(config.llm /\ SynthesizerJsonUnusable(out))
    /\ UNCHANGED supervisorEntries

_critic_node ==
    /\ pc = "critic"
    /\ \E out \in Answers(CriticOutcomes, NoJson) :
          LET r == critic(state, config.llm, out)
          IN /\ Step("critic", r,
                     IF _route_after_critic(r.state, config) = "done"
                     THEN "fix_advisor" ELSE "supervisor")
             /\ Parsed(config.llm /\ ScoreJsonUnusable(out.kind, out.score))
    /\ UNCHANGED supervisorEntries

_fix_advisor_node ==
    /\ pc = "fix_advisor"
    /\ \E out \in Answers(FixOutcomes, NoJson) :
          /\ Step("fix_advisor", fix_advisor(state, config.llm, out), "END")
          /\ Parsed(config.llm
                       /\ ScoreJsonUnusable(out.kind, out.fix_confidence))
    /\ UNCHANGED supervisorEntries

\* Mutant: save keeps no report but the one it is given.
saveAlone(reports, rep) ==
    [i \in DOMAIN reports |-> IF i = rep.incident_id THEN rep ELSE NoReport]

\* Mutant: save stores nothing.
saveNothing(reports, rep) == reports

\* InMemoryReportRepository.save / get
save(reports, rep) == [reports EXCEPT ![rep.incident_id] = rep]
get(reports, incident_id) == reports[incident_id]

\* Mutant: fix_confidence is not consulted.
FinalStatusCriticOnly(final, cfg) ==
    IF final.critic_score >= cfg.critic_threshold
    THEN "completed" ELSE "escalated"

\* The terminal status run gives a graph that reached END.
FinalStatus(final, cfg) ==
    IF \/ final.critic_score >= cfg.critic_threshold
       \/ final.fix_confidence >= cfg.fix_confidence_threshold
    THEN "completed" ELSE "escalated"

\* run, try block after the graph returned: build the report and save it.
RunEmitReport ==
    /\ pc = "END"
    /\ report' = RcaReport(incident.incident_id, FinalStatus(state, config),
                           state.critic_score, state.fix_confidence,
                           state.hypotheses, state.errors, state.iteration)
    /\ repository' = save(repository, report')
    /\ pc' = "log"
    /\ UNCHANGED <<config, incident, state, exc, logFile, supervisorEntries,
                   lastStage, parseFailed, parseFailures>>
    /\ UNCHANGED <<indexVars, storeVars, runs>>

\* Mutant: the exception message is dropped.
FailedReportNoMessage(incident_id, message) ==
    RcaReport(incident_id, "failed", 0, 0, <<>>, <<>>, 0)

\* RcaReport(incident_id=..., status="failed", errors=[str(exc)], metadata={})
FailedReport(incident_id, message) ==
    RcaReport(incident_id, "failed", 0, 0, <<>>, <<message>>, 0)

\* run, except block: the failed report, saved.
RunExcept ==
    /\ pc = "except"
    /\ report' = FailedReport(incident.incident_id, exc)
    /\ repository' = save(repository, report')
    /\ pc' = "log"
    /\ UNCHANGED <<config, incident, state, exc, logFile, supervisorEntries,
                   lastStage, parseFailed, parseFailures>>
    /\ UNCHANGED <<indexVars, storeVars, runs>>

\* _persist_report_log(report), then run returns the report.
_persist_report_log ==
    /\ pc = "log"
    /\ logFile' = IF config.report_log_path THEN report ELSE logFile
    /\ pc' = "returned"
    /\ UNCHANGED <<config, incident, state, exc, report, repository,
                   supervisorEntries, lastStage, parseFailed, parseFailures>>
    /\ UNCHANGED <<indexVars, storeVars, runs>>

Next ==
    \/ _supervisor_node
    \/ _mesh_scout_node
    \/ _git_scout_node
    \/ _metric_analyst_node
    \/ _rca_synthesizer_node
    \/ _critic_node
    \/ _fix_advisor_node
    \/ RunEmitReport
    \/ RunExcept
    \/ _persist_report_log

Spec == Init /\ [][Next]_vars

\* Runs of one incident under the configurations that differ in what the
\* routing reads (LLM or stub, critic_threshold, max_iterations); the graph
\* runner and run never pause forever between two steps.
RoutingInit ==
    /\ Init
    /\ incident = [incident_id |-> "inc-77", deployment_id |-> "none",
                   mesh_events |-> <<>>]
    /\ config.report_log_path
    /\ config.fix_confidence_threshold = DefaultFixConfidenceThreshold

FairSpec == RoutingInit /\ [][Next]_vars /\ WF_vars(Next)

\* _persist_report_log(report) raises (mkdir or write_text fails).  In the
\* try block of run the exception is caught by run's except clause; in the
\* except block it leaves run.
PersistLogRaises ==
    /\ pc = "log"
    /\ config.report_log_path
    /\ IF exc = NoExc
       THEN pc' = "except" /\ exc' = "OSError: report log"
       ELSE pc' = "raised" /\ UNCHANGED exc
    /\ UNCHANGED <<config, incident, state, report, repository, logFile,
                   supervisorEntries, lastStage, parseFailed, parseFailures>>
    /\ UNCHANGED <<indexVars, storeVars, runs>>

LogFailNext == Next \/ PersistLogRaises

\* Runs of an engine whose report log may fail to be written.
LogFailSpec == RoutingInit /\ [][LogFailNext]_vars

\* The runs of Spec together with long runs of the engine without LLM.
StubSpec == StubInit /\ [][Next]_vars

\* ------------------------------------------------------ concurrent runs
\* Calls of run for distinct incidents that execute at the same time on
\* one engine.  Each call has its own locals: the incident, the BrainState
\* the graph runner works on, the exception and the report.  The engine's
\* config, the repository and the log file are shared.  The incidents are
\* without mesh events, like `incident`.
GraphNodes == {"supervisor", "mesh_scout", "git_scout", "metric_analyst",
               "rca_synthesizer", "critic", "fix_advisor"}

\* The results a node of the graph can give for a state, each with the node
\* that follows it.
NodeRuns(stage, s, inc) ==
    CASE stage = "supervisor" ->
            {<<supervisor(IncrementIteration(s), inc, config.llm, out),
               "mesh_scout">> : out \in Answers(GenerateOutcomes, "no-llm")}
      [] stage = "mesh_scout" ->
            {<<mesh_scout_via(s, config.mesh_driver), "git_scout">>}
      [] stage = "git_scout" ->
            {<<git_scout_via(s, inc, config.llm, out, config.graph_index),
               "metric_analyst">> :
                out \in Answers(GenerateOutcomes, "no-llm")}
      [] stage = "metric_analyst" ->
            {<<metric_analyst(s, inc, config.llm, out), "rca_synthesizer">> :
                out \in Answers(GenerateOutcomes, "no-llm")}
      [] stage = "rca_synthesizer" ->
            {<<rca_synthesizer(s, inc, config.llm, out), "critic">> :
                out \in Answers(SynthesizerOutcomes, NoJson)}
      [] stage = "critic" ->
            {LET r == critic(s, config.llm, out)
             IN <<r, IF _route_after_critic(r.state, config) = "done"
                     THEN "fix_advisor" ELSE "supervisor">> :
                out \in Answers(CriticOutcomes, NoJson)}
      [] stage = "fix_advisor" ->
            {<<fix_advisor(s, config.llm, out), "END">> :
                out \in Answers(FixOutcomes, NoJson)}

OthersUnchanged ==
    /\ UNCHANGED <<config, incident, state, pc, exc, report,
                   supervisorEntries, lastStage, parseFailed, parseFailures>>
    /\ UNCHANGED <<indexVars, storeVars>>

\* A node of the graph ran in the call for incident id.
RunNode(id) ==
    /\ runs[id].pc \in GraphNodes
    /\ runs[id].state.iteration < IterationCap
    /\ \E rn \in NodeRuns(runs[id].pc, runs[id].state, runs[id].incident) :
          runs' = [runs EXCEPT ![id] =
                      [@ EXCEPT !.state = rn[1].state,
                                !.exc = rn[1].exc,
                                !.pc = IF rn[1].exc = NoExc
                                       THEN rn[2] ELSE "except"]]
    /\ UNCHANGED <<repository, logFile>>
    /\ OthersUnchanged

\* The call for incident id builds its report and saves it: the report of
\* the final state after END, the failed report in the except block.
RunSave(id) ==
    /\ runs[id].pc \in {"END", "except"}
    /\ LET r == runs[id]
           rep == IF r.pc = "END"
                  THEN RcaReport(r.incident.incident_id,
                                 FinalStatus(r.state, config),
                                 r.state.critic_score, r.state.fix_confidence,
                                 r.state.hypotheses, r.state.errors,
                                 r.state.iteration)
                  ELSE FailedReport(r.incident.incident_id, r.exc)
       IN /\ runs' = [runs EXCEPT ![id] =
                         [@ EXCEPT !.report = rep, !.pc = "log"]]
          /\ repository' = save(repository, rep)
    /\ UNCHANGED logFile
    /\ OthersUnchanged

\* The call for incident id writes the report log and returns.
RunLog(id) ==
    /\ runs[id].pc = "log"
    /\ logFile' = IF config.report_log_path THEN runs[id].report ELSE logFile
    /\ runs' = [runs EXCEPT ![id] = [@ EXCEPT !.pc = "returned"]]
    /\ UNCHANGED repository
    /\ OthersUnchanged

ParallelNext ==
    \/ \E id \in IncidentIds : RunNode(id)
    \/ \E id \in IncidentIds : RunSave(id)
    \/ \E id \in IncidentIds : RunLog(id)

\* One engine, with or without LLM, on which run was called for every
\* incident id at once.
ParallelInit ==
    /\ config \in {c \in Configs :
                      /\ c.critic_threshold = DefaultCriticThreshold
                      /\ c.fix_confidence_threshold
                            = DefaultFixConfidenceThreshold
                      /\ c.max_iterations = 1
                      /\ c.report_log_path}
    /\ incident = [incident_id |-> "inc-1", deployment_id |-> "none",
                   mesh_events |-> <<>>]
    /\ state = InitialBrainState(config)
    /\ pc = "idle"
    /\ exc = NoExc
    /\ report = NoReport
    /\ repository = [i \in IncidentIds |->
                        IF i = "inc-1" THEN StaleReport ELSE NoReport]
    /\ logFile = NoReport
    /\ supervisorEntries = 0
    /\ lastStage = "none"
    /\ parseFailed = FALSE
    /\ parseFailures = 0
    /\ runs = [id \in IncidentIds |->
                  [incident |-> [incident_id |-> id,
                                 deployment_id |-> "deploy-1",
                                 mesh_events |-> <<>>],
                   state |-> InitialBrainState(config),
                   pc |-> "supervisor", exc |-> NoExc, report |-> NoReport]]
    /\ IndexerIdle
    /\ StoreIdle

ParallelSpec == ParallelInit /\ [][ParallelNext]_vars

\* Configurations of the runs that look at the mesh: default thresholds,
\* one or two iterations without LLM, one iteration with it.
MeshConfigs ==
    {c \in ConfigsOver(1..2, BOOLEAN) :
        /\ c.critic_threshold = DefaultCriticThreshold
        /\ c.fix_confidence_threshold = DefaultFixConfidenceThreshold
        /\ ~c.report_log_path
        /\ c.llm => c.max_iterations = 1}

MeshIncidents ==
    [incident_id : {"inc-77"}, deployment_id : DeploymentIds,
     mesh_events : MeshEventLists]

\* suspect_services of a BrainState handed to a stage by a direct caller.
GivenSuspectLists ==
    UNION {[1..n -> {Service, PaymentApi, InventoryApi}] : n \in 0..MaxSuspects}

\* Incidents of the direct calls: no mesh events, one degraded upstream, two.
DirectIncidents ==
    {i \in MeshIncidents :
        /\ i.deployment_id = "none"
        /\ i.mesh_events \in
              {<<>>,
               <<MeshEvent(Service, PaymentApi, "current", 100, 0, 503)>>,
               <<MeshEvent(Service, PaymentApi, "current", 100, 0, 503),
                 MeshEvent(Service, InventoryApi, "current", 600, 0, 200)>>}}

\* A run that starts at stage `entry` on a fresh BrainState whose
\* suspect_services is `given`.
InitFrom(configs, incidents, entries, given) ==
    /\ config \in configs
    /\ incident \in incidents
    /\ state \in {[InitialBrainState(config) EXCEPT !.suspect_services = g] :
                     g \in given}
    /\ pc \in entries
    /\ exc = NoExc
    /\ report = NoReport
    /\ repository = [i \in IncidentIds |-> NoReport]
    /\ logFile = NoReport
    /\ supervisorEntries = 0
    /\ lastStage = "none"
    /\ parseFailed = FALSE
    /\ parseFailures = 0
    /\ runs = NoRuns
    /\ IndexerIdle
    /\ StoreIdle

\* Runs of the engine on incidents with mesh events.
MeshSpec ==
    /\ InitFrom(MeshConfigs, MeshIncidents, {"supervisor"}, {<<>>})
    /\ [][Next]_vars

\* supervisor, mesh_scout or metric_analyst called on a BrainState whose
\* suspect_services the caller chose, and the stages that follow it.
DirectSpec ==
    /\ InitFrom(MeshConfigs, DirectIncidents,
                {"supervisor", "mesh_scout", "metric_analyst"},
                GivenSuspectLists)
    /\ [][Next]_vars

\* Incidents whose mesh events give inventory-api a slow call in the
\* incident window and a baseline to payment-api, to inventory-api or both.
BaselineEvents ==
    {MeshEvent(Service, InventoryApi, "current", 100, 0, 200),
     MeshEvent(Service, InventoryApi, "baseline", 100, 0, 200),
     MeshEvent(Service, PaymentApi, "baseline", 40, 0, 200),
     MeshEvent(Service, PaymentApi, "current", 40, 0, 200)}

BaselineIncidents ==
    [incident_id : {"inc-77"}, deployment_id : {"none"},
     mesh_events : UNION {[1..n -> BaselineEvents] : n \in 0..MaxEvents}]

\* Runs of the engine on those incidents.
BaselineSpec ==
    /\ InitFrom(MeshConfigs, BaselineIncidents, {"supervisor"}, {<<>>})
    /\ [][Next]_vars

\* ------------------------------------------- mesh driver and graph index
\* The query of a mesh driver returns at most MaxRows rows.
MaxRows == 2

\* Rows for the two dependencies: not observed, or observed with score 2
\* (by errors and latency), score 2 (by latency) or score 5.
MeshRows ==
    {MeshRow(svc, st[1], st[2], st[3]) :
        svc \in {PaymentApi, InventoryApi},
        st \in {<<0, 0, 0>>, <<1, 10, 100>>, <<0, 10, 200>>, <<5, 10, 0>>}}

\* What the query returns: one row without stats for a dependency that has
\* no OBSERVED_CALL edge (OPTIONAL MATCH), one row per OBSERVED_CALL edge
\* otherwise, each with call_count >= 1 as the ingestion writes it.
MeshRowLists ==
    {rows \in UNION {[1..n -> MeshRows] : n \in 0..MaxRows} :
        \A i, j \in 1..Len(rows) :
            (i # j /\ rows[i].svc = rows[j].svc) =>
                (rows[i].call_count > 0 /\ rows[j].call_count > 0)}

\* Mesh drivers: none, one whose session raises, one per list of rows.
MeshDrivers ==
    {NoDriver, [present |-> TRUE, raises |-> TRUE, rows |-> <<>>]}
        \cup {[present |-> TRUE, raises |-> FALSE, rows |-> rows] :
                 rows \in MeshRowLists}

\* Graph indexes: none, or a retriever that has results for the services
\* of `found` and raises when asked for a service of `raises`.
GraphIndexes ==
    {NoIndex}
        \cup {[present |-> TRUE, found |-> f, raises |-> r] :
                 f \in {{}, {Service}, {Service, PaymentApi}},
                 r \in {{}, {PaymentApi}}}

\* Engines with a mesh driver and a graph index: every driver and index
\* without LLM, one driver and one index with an LLM.
EvidenceConfigs ==
    {[c EXCEPT !.mesh_driver = d, !.graph_index = g] :
        c \in {m \in MeshConfigs : ~m.llm},
        d \in MeshDrivers, g \in GraphIndexes}
      \cup
    {[c EXCEPT !.mesh_driver =
                  [present |-> TRUE, raises |-> FALSE,
                   rows |-> <<MeshRow(PaymentApi, 1, 10, 100)>>],
               !.graph_index =
                  [present |-> TRUE, found |-> {Service}, raises |-> {}]] :
        c \in {m \in MeshConfigs : m.llm}}

\* Incidents with or without a deployment, without mesh events or with one
\* failing call to inventory-api.
EvidenceIncidents ==
    {i \in MeshIncidents :
        i.mesh_events \in
            {<<>>, <<MeshEvent(Service, InventoryApi, "current", 600, 0, 200)>>}}

\* Runs of an engine that has a mesh driver and a graph index.
EvidenceSpec ==
    /\ InitFrom(EvidenceConfigs, EvidenceIncidents, {"supervisor"}, {<<>>})
    /\ [][Next]_vars

\* ==================================================================
\* The differential indexer (rca/indexing/differential_indexer.py)
\* ==================================================================
STATUS_ADDED == "ADDED"
STATUS_MODIFIED == "MODIFIED"
STATUS_UNCHANGED == "UNCHANGED"
STATUS_DELETED == "DELETED"
STATUS_MOVED == "MOVED"
Statuses ==
    {STATUS_ADDED, STATUS_MODIFIED, STATUS_UNCHANGED, STATUS_DELETED,
     STATUS_MOVED}

\* A node of the code hierarchy: metadata file_path, the names of its
\* inclusive_scopes, start_line, end_line and status, and its text (a list
\* of lines).  `projected` is history: the status the hunk projection gave.
Node(file_path, scopes, start_line, end_line, status) ==
    [file_path |-> file_path, scopes |-> scopes, start_line |-> start_line,
     end_line |-> end_line, status |-> status, text |-> <<>>,
     projected |-> status]

\* The body lines of a hunk that count as source lines.
SourceCount(body) == Len(SelectSeq(body, LAMBDA l : l # "+"))

\* A hunk: the start and length of its @@ -start,length header and its body,
\* a list of removed ("-"), added ("+") and context (" ") lines.
Hunk(start, length, body) == [start |-> start, length |-> length, body |-> body]

\* _parse_hunks(raw_diff): (start, start + max(length, 1) - 1) per hunk, on
\* the PatchSet path and on the regex path alike.
_parse_hunks(diff) ==
    [i \in 1..Len(diff.hunks) |->
        <<diff.hunks[i].start,
          diff.hunks[i].start + Max(diff.hunks[i].length, 1) - 1>>]

_overlaps(node_start, node_end, hunk_ranges) ==
    \E i \in 1..Len(hunk_ranges) :
        node_start <= hunk_ranges[i][2] /\ node_end >= hunk_ranges[i][1]

\* The source line counter of _extract_patch_text before body line k of a
\* hunk: the hunk's start plus the removed and context lines before k.
SourceLineAt(hunk, k) ==
    hunk.start + SourceCount(SubSeq(hunk.body, 1, k - 1))

\* The lines _extract_patch_text takes from hunk number h: a removed line
\* when the counter is within the node's range, every added line.
HunkPatchLines(hunk, h, node_start, node_end) ==
    LET taken(k) ==
          \/ hunk.body[k] = "+"
          \/ /\ hunk.body[k] = "-"
             /\ node_start <= SourceLineAt(hunk, k)
             /\ SourceLineAt(hunk, k) <= node_end
        ks == SelectSeq([k \in 1..Len(hunk.body) |-> k], taken)
    IN [i \in 1..Len(ks) |-> <<hunk.body[ks[i]], h, ks[i]>>]

RECURSIVE Concat(_)
Concat(lists) ==
    IF lists = <<>> THEN <<>> ELSE lists[1] \o Concat(Tail(lists))

\* _extract_patch_text(raw_diff, node_start, node_end): with a diff that
\* PatchSet parses, the lines of the hunks whose range overlaps the node's;
\* otherwise (manual parser) the lines of every hunk.
_extract_patch_text(diff, node_start, node_end) ==
    LET ranges == _parse_hunks(diff)
        used(h) == ~diff.parsed
                     \/ _overlaps(node_start, node_end, <<ranges[h]>>)
    IN Concat([h \in 1..Len(diff.hunks) |->
                  IF used(h)
                  THEN HunkPatchLines(diff.hunks[h], h, node_start, node_end)
                  ELSE <<>>])

\* source_lines[node_start - 1 : node_end] of a file of `content` lines.
SourceSlice(content, node_start, node_end) ==
    LET last == Min(node_end, content)
    IN [i \in 1..Max(0, last - node_start + 1) |-> <<"src", node_start + i - 1>>]

_node_text(status, node_start, node_end, diff, content) ==
    IF status = STATUS_MODIFIED
    THEN _extract_patch_text(diff, node_start, node_end)
    ELSE IF status = STATUS_ADDED
         THEN SourceSlice(content, node_start, node_end)
         ELSE <<>>

IsPrefix(p, q) == Len(p) <= Len(q) /\ SubSeq(q, 1, Len(p)) = p
IsStrictPrefix(p, q) == Len(p) < Len(q) /\ IsPrefix(p, q)

\* scope_to_node.get(key) within the file of node i: the index of the last
\* node of that file whose scope chain is key, 0 when there is none.
ScopeToNode(nodes, file_path, key) ==
    LET with == {k \in 1..Len(nodes) :
                    nodes[k].file_path = file_path /\ nodes[k].scopes = key}
    IN IF with = {} THEN 0 ELSE CHOOSE k \in with : \A m \in with : m <= k

\* The ancestor walk of _propagate_status_upward for node i.
PropagateFrom(nodes, i) ==
    IF nodes[i].status \notin {STATUS_MODIFIED, STATUS_ADDED} THEN nodes
    ELSE LET key == nodes[i].scopes
             ancestors ==
                 {ScopeToNode(nodes, nodes[i].file_path, SubSeq(key, 1, depth)) :
                     depth \in 0..(Len(key) - 1)}
         IN [k \in 1..Len(nodes) |->
                IF k \in ancestors /\ nodes[k].status = STATUS_UNCHANGED
                THEN [nodes[k] EXCEPT !.status = STATUS_MODIFIED]
                ELSE nodes[k]]

RECURSIVE PropagateLoop(_, _)
PropagateLoop(nodes, i) ==
    IF i > Len(nodes) THEN nodes
    ELSE PropagateLoop(PropagateFrom(nodes, i), i + 1)

\* Mutant: only the direct parent is upgraded.
PropagateParentOnly(nodes) ==
    [k \in 1..Len(nodes) |->
        IF /\ nodes[k].status = STATUS_UNCHANGED
           /\ \E i \in 1..Len(nodes) :
                 /\ nodes[i].status \in {STATUS_MODIFIED, STATUS_ADDED}
                 /\ nodes[i].file_path = nodes[k].file_path
                 /\ Len(nodes[i].scopes) = Len(nodes[k].scopes) + 1
                 /\ IsPrefix(nodes[k].scopes, nodes[i].scopes)
                 /\ k = ScopeToNode(nodes, nodes[k].file_path, nodes[k].scopes)
        THEN [nodes[k] EXCEPT !.status = STATUS_MODIFIED]
        ELSE nodes[k]]

\* Mutant: nodes are not grouped by file.
PropagateAcrossFiles(nodes) ==
    [k \in 1..Len(nodes) |->
        IF /\ nodes[k].status = STATUS_UNCHANGED
           /\ \E i \in 1..Len(nodes) :
                 /\ nodes[i].status \in {STATUS_MODIFIED, STATUS_ADDED}
                 /\ IsStrictPrefix(nodes[k].scopes, nodes[i].scopes)
        THEN [nodes[k] EXCEPT !.status = STATUS_MODIFIED]
        ELSE nodes[k]]

\* _propagate_status_upward(nodes): the nodes are visited in list order
\* (the grouping by file changes the order of the visits, not their effect:
\* a visit reads and writes nodes of its own file only).
_propagate_status_upward(nodes) == PropagateLoop(nodes, 1)

\* ----------------------------------------------------- indexer inputs
Files == {"a.py", "b.py"}
\* Scope chains: the module, a class, two methods of the class.
ScopeChains == {<<>>, <<"A">>, <<"A", "B">>, <<"A", "C">>}
\* Line ranges [start_line, end_line] of parsed nodes.
NodeRanges ==
    {<<1, 1>>, <<1, 2>>, <<2, 3>>, <<1, MaxLine>>, <<3, MaxLine>>}

\* The nodes CodeHierarchyNodeParser returns for the file, positions
\* enriched, no status yet.
ParsedNodes ==
    {Node("a.py", sc, r[1], r[2], "") : sc \in ScopeChains \ {<<"A", "C">>},
                                         r \in NodeRanges}
ParsedNodeLists == UNION {[1..n -> ParsedNodes] : n \in 1..MaxParsed}

HunkBodies == {<<"-", "+">>, <<"+">>, <<" ", "-">>, <<"-", "-">>}
\* Hunks whose header length is the number of source lines of the body, and
\* hunks whose header says one more (PatchSet rejects those).
Hunks ==
    {Hunk(st, SourceCount(b) + d, b) :
        st \in 1..MaxLine, b \in HunkBodies, d \in {0, 1}}
HunkLists == UNION {[1..n -> Hunks] : n \in 0..MaxHunks}

\* What get_diff returns for a file that is not deleted: whether PatchSet
\* parses it, whether it marks the file as added (_is_file_added, FALSE
\* when PatchSet raises), and its hunks.
Diffs ==
    {d \in [added : BOOLEAN, parsed : BOOLEAN, hunks : HunkLists] :
        /\ d.parsed =>
              \A i \in 1..Len(d.hunks) :
                 d.hunks[i].length = SourceCount(d.hunks[i].body)
        /\ ~d.parsed => ~d.added}

\* Node lists handed to _propagate_status_upward by a direct caller: any
\* status, two files, scope chains that may repeat.
StatusNodes ==
    {Node("a.py", sc, 1, 1, st) : sc \in ScopeChains, st \in Statuses}
        \cup {Node("b.py", <<"A">>, 1, 1, STATUS_UNCHANGED),
              Node("b.py", <<"A", "B">>, 1, 1, STATUS_MODIFIED)}
StatusNodeLists == UNION {[1..n -> StatusNodes] : n \in 1..MaxNodes}

\* No run of the Brain is in progress.
BrainIdle ==
    /\ config = [critic_threshold |-> DefaultCriticThreshold,
                 fix_confidence_threshold |-> DefaultFixConfidenceThreshold,
                 max_iterations |-> 0, llm |-> FALSE,
                 report_log_path |-> FALSE,
                 mesh_driver |-> NoDriver, graph_index |-> NoIndex]
    /\ incident = [incident_id |-> "inc-1", deployment_id |-> "none",
                   mesh_events |-> <<>>]
    /\ state = InitialBrainState(config)
    /\ pc = "idle"
    /\ exc = NoExc
    /\ report = NoReport
    /\ repository = [i \in IncidentIds |-> NoReport]
    /\ logFile = NoReport
    /\ supervisorEntries = 0
    /\ lastStage = "none"
    /\ parseFailed = FALSE
    /\ parseFailures = 0
    /\ runs = NoRuns

\* ----------------------------------------------------- _index_file
\* Mutant: the file_added test is missing.
ProjectedStatusNotAdded(diff, start, end) ==
    IF _parse_hunks(diff) # <<>> /\ _overlaps(start, end, _parse_hunks(diff))
    THEN STATUS_MODIFIED
    ELSE STATUS_UNCHANGED

\* The status _index_file gives a parsed node from the diff.
ProjectedStatus(diff, start, end) ==
    IF diff.added THEN STATUS_ADDED
    ELSE IF _parse_hunks(diff) # <<>>
            /\ _overlaps(start, end, _parse_hunks(diff))
         THEN STATUS_MODIFIED
         ELSE STATUS_UNCHANGED

\* _index_file, the loop over the parsed nodes: project the hunks.
ProjectHunks ==
    /\ index_pc = "project"
    /\ upsert_nodes' =
          [i \in 1..Len(upsert_nodes) |->
              LET st == ProjectedStatus(raw_diff, upsert_nodes[i].start_line,
                                        upsert_nodes[i].end_line)
              IN [upsert_nodes[i] EXCEPT !.status = st, !.projected = st]]
    /\ index_pc' = "propagate"
    /\ UNCHANGED <<raw_diff, file_content>>
    /\ UNCHANGED <<brainVars, storeVars, runs>>

\* _propagate_status_upward(upsert_nodes)
PropagateStatus ==
    /\ index_pc = "propagate"
    /\ upsert_nodes' = _propagate_status_upward(upsert_nodes)
    /\ index_pc' = "text"
    /\ UNCHANGED <<raw_diff, file_content>>
    /\ UNCHANGED <<brainVars, storeVars, runs>>

\* Mutant: the text follows the status the projection gave.
AssignTextProjected ==
    /\ index_pc = "text"
    /\ upsert_nodes' =
          [i \in 1..Len(upsert_nodes) |->
              [upsert_nodes[i] EXCEPT !.text =
                  _node_text(upsert_nodes[i].projected,
                             upsert_nodes[i].start_line,
                             upsert_nodes[i].end_line, raw_diff, file_content)]]
    /\ index_pc' = "upsert"
    /\ UNCHANGED <<raw_diff, file_content>>
    /\ UNCHANGED <<brainVars, storeVars, runs>>

\* _index_file, the loop that sets node.text from the final status.
AssignText ==
    /\ index_pc = "text"
    /\ upsert_nodes' =
          [i \in 1..Len(upsert_nodes) |->
              [upsert_nodes[i] EXCEPT !.text =
                  _node_text(upsert_nodes[i].status,
                             upsert_nodes[i].start_line,
                             upsert_nodes[i].end_line, raw_diff, file_content)]]
    /\ index_pc' = "upsert"
    /\ UNCHANGED <<raw_diff, file_content>>
    /\ UNCHANGED <<brainVars, storeVars, runs>>

IndexNext == ProjectHunks \/ PropagateStatus \/ AssignText

\* _index_file on a file that is not deleted, from the parsed nodes on.
IndexInit ==
    /\ BrainIdle
    /\ index_pc = "project"
    /\ raw_diff \in Diffs
    /\ file_content \in {2, MaxLine}
    /\ upsert_nodes \in ParsedNodeLists
    /\ StoreIdle

IndexSpec == IndexInit /\ [][IndexNext]_vars

\* _propagate_status_upward called on a list of nodes with any statuses.
PropagateInit ==
    /\ BrainIdle
    /\ index_pc = "propagate"
    /\ raw_diff = NoDiff
    /\ file_content = 0
    /\ upsert_nodes \in StatusNodeLists
    /\ StoreIdle

PropagateSpec == PropagateInit /\ [][PropagateStatus]_vars

\* ==================================================================
\* index_commit and the graph store (rca/indexing/differential_indexer.py)
\* ==================================================================
\* A service that is not registered in the ServiceRepoMap.
UnknownService == "ghost-api"
\* Commit shas.
Commits == {"c1", "c2"}
\* A metadata key that is not set.
Absent == "(absent)"

\* The symbol_name argument of _node_id: f"{name}:{start}" for a parsed
\* node (start >= 1 here), the bare path for a file tombstone (start 0
\* stands for "no start part").
SymbolName(name, start) == [name |-> name, start |-> start]
FileSymbol(path) == [name |-> path, start |-> 0]

\* Mutant: the commit is part of the identity.
_node_id_per_commit(service, commit_sha, file_path, symbol_name) ==
    [service |-> service, commit |-> commit_sha, file_path |-> file_path,
     symbol_name |-> symbol_name]

\* sha1(f"{service}:{file_path}:{symbol_name}"): the digest is kept as the
\* parts of the string it is taken of; commit_sha is not one of them.
_node_id(service, commit_sha, file_path, symbol_name) ==
    [service |-> service, file_path |-> file_path,
     symbol_name |-> symbol_name]

\* metadata["name"] after _enrich_node_positions: the innermost scope.
NodeName(scopes) == IF scopes = <<>> THEN "(module)" ELSE scopes[Len(scopes)]

IndexingDiagnostic(severity, stage, file_path, commit_sha) ==
    [severity |-> severity, stage |-> stage, file_path |-> file_path,
     commit_sha |-> commit_sha]

\* The ChunkNode _upsert builds from a node of _index_file: id_ from
\* metadata["node_id"], the text, and the metadata as properties.
SymbolChunk(node, service, commit_sha) ==
    [id_ |-> _node_id(service, commit_sha, node.file_path,
                      SymbolName(NodeName(node.scopes), node.start_line)),
     text |-> node.text,
     status |-> node.status,
     file_path |-> node.file_path,
     prior_path |-> Absent,
     commit_sha |-> commit_sha,
     service |-> service,
     name |-> NodeName(node.scopes),
     symbol_name |-> Absent,
     symbol_kind |-> IF node.scopes = <<>> THEN Absent ELSE "definition",
     start_line |-> node.start_line,
     end_line |-> node.end_line]

\* The file-level tombstone of _retain_deleted_nodes.
Tombstone(path, service, commit_sha) ==
    [id_ |-> _node_id(service, commit_sha, path, FileSymbol(path)),
     text |-> <<>>,
     status |-> STATUS_DELETED,
     file_path |-> path,
     prior_path |-> path,
     commit_sha |-> commit_sha,
     service |-> service,
     name |-> Absent,
     symbol_name |-> path,
     symbol_kind |-> "file",
     start_line |-> 0,
     end_line |-> 0]

\* Mutant: the text of a retained node is kept.
RetainedWithText(node, path, commit_sha) ==
    [node EXCEPT !.status = STATUS_DELETED,
                 !.prior_path = node.file_path,
                 !.commit_sha = commit_sha]

\* _retain_deleted_nodes, the loop over the existing nodes.
Retained(node, path, commit_sha) ==
    [node EXCEPT !.text = <<>>,
                 !.status = STATUS_DELETED,
                 !.prior_path = node.file_path,
                 !.commit_sha = commit_sha]

\* Mutant: the nodes upserted for a path replace the nodes of that path.
StoreUpsertPerPath(store, chunk_nodes) ==
    {n \in store :
        \A i \in 1..Len(chunk_nodes) : n.file_path # chunk_nodes[i].file_path}
        \cup SeqToSet(chunk_nodes)

\* Mutant: a node is always inserted, also when its id is in the store.
StoreInsert(store, chunk_nodes) == store \cup SeqToSet(chunk_nodes)

\* graph_store.upsert_nodes(chunk_nodes): a node replaces the node of the
\* same id_; of two nodes of the list with one id_ the later one stays.
StoreUpsert(store, chunk_nodes) ==
    LET ids == {chunk_nodes[i].id_ : i \in 1..Len(chunk_nodes)}
        last(id) == CHOOSE i \in 1..Len(chunk_nodes) :
                       /\ chunk_nodes[i].id_ = id
                       /\ \A j \in 1..Len(chunk_nodes) :
                             chunk_nodes[j].id_ = id => j <= i
    IN {n \in store : n.id_ \notin ids}
          \cup {chunk_nodes[last(id)] : id \in ids}

\* Mutant: nodes that are DELETED already are not returned.
NodesByPathLive(store, path) ==
    {n \in store : n.file_path = path /\ n.status # STATUS_DELETED}

\* _query_nodes_by_path(path) when the retriever answers: the nodes of the
\* store whose file_path is path.
NodesByPath(store, path) == {n \in store : n.file_path = path}

\* ------------------------------------------- the repository at a commit
\* What the adapter and the parser answer for a path at a commit: get_diff
\* raises; the diff deletes the file; get_file raises; the parser raises;
\* the parser returns no node; or a diff, a file and its parsed nodes.
FileOutcome(kind, diff, content, nodes) ==
    [kind |-> kind, diff |-> diff, content |-> content, nodes |-> nodes]
Failing(kind) == FileOutcome(kind, NoDiff, 0, <<>>)

\* A module with a class A on lines 1-2, in a diff that adds the file.
AddedFile(path) ==
    FileOutcome("source",
                [added |-> TRUE, parsed |-> TRUE,
                 hunks |-> <<Hunk(1, 0, <<"+">>)>>],
                MaxLine,
                <<Node(path, <<>>, 1, MaxLine, ""),
                  Node(path, <<"A">>, 1, 2, "")>>)
\* The same file, line 1 changed.
ModifiedFile(path) ==
    FileOutcome("source",
                [added |-> FALSE, parsed |-> TRUE,
                 hunks |-> <<Hunk(1, 1, <<"-", "+">>)>>],
                MaxLine,
                <<Node(path, <<>>, 1, MaxLine, ""),
                  Node(path, <<"A">>, 1, 2, "")>>)
\* The same file after a line was put in front of class A: A on lines 2-3.
ShiftedFile(path) ==
    FileOutcome("source",
                [added |-> FALSE, parsed |-> TRUE,
                 hunks |-> <<Hunk(1, 0, <<"+">>)>>],
                MaxLine,
                <<Node(path, <<>>, 1, MaxLine, ""),
                  Node(path, <<"A">>, 2, 3, "")>>)
\* A file of two lines without a class, in a diff without hunks.
PlainFile(path) ==
    FileOutcome("source", NoDiff, 2, <<Node(path, <<>>, 1, 2, "")>>)

FailureKinds == {"diff_raises", "file_raises", "parse_raises", "no_nodes"}
FileOutcomes(path) ==
    {Failing(k) : k \in FailureKinds \cup {"deleted"}}
        \cup {AddedFile(path), ModifiedFile(path), ShiftedFile(path)}

\* list_changed_files(commit_sha) and list_commits(...): a list, or raises.
Listing(raises, items) == [raises |-> raises, items |-> items]

\* Repositories of two commits that change a.py and b.py: any outcome for
\* a.py at either commit, b.py plain or deleted.
Repos ==
    {[commits |-> Listing(FALSE, <<>>),
      changed |-> [c \in Commits |->
                      IF c = "c2" /\ raises2 THEN Listing(TRUE, <<>>)
                      ELSE Listing(FALSE, <<"a.py", "b.py">>)],
      file |-> [x \in Commits \X Files |->
                   IF x[2] = "b.py" THEN b
                   ELSE IF x[1] = "c1" THEN a1 ELSE a2]] :
        raises2 \in BOOLEAN,
        b \in {PlainFile("b.py"), Failing("deleted")},
        a1 \in FileOutcomes("a.py"), a2 \in FileOutcomes("a.py")}

\* The requests of the callers of index_commit.
Requests ==
    [service : {Service}, commit_sha : Commits,
     file_paths : {<<>>, <<"a.py">>}]
        \cup {[service |-> UnknownService, commit_sha |-> "c1",
               file_paths |-> <<>>]}

\* ------------------------------------------------------- index_commit
\* index_commit is called at most MaxCalls times.
MaxCalls == 2

\* A caller calls index_commit(request), not while the runner is at work.
CallIndexCommit ==
    /\ backfill.pc \in {"idle", "returned", "raised"}
    /\ commit_pc \in {"idle", "returned"}
    /\ Len(index_calls) < MaxCalls
    /\ request' \in Requests
    /\ commit_pc' = "resolve"
    /\ file_paths' = <<>>
    /\ total_upserted' = 0
    /\ diagnostics' = <<>>
    /\ store_calls' = <<>>
    /\ written' = {}
    /\ adapter_calls' = 0
    /\ store_before' = graph_store
    /\ UNCHANGED <<props, safe_props, backfill, relations, relations_raised>>
    /\ UNCHANGED <<service_repo_map, repo, graph_store, index_calls>>
    /\ UNCHANGED <<brainVars, indexVars, runs>>

\* index_commit up to its loop: resolve the service, determine the files.
index_commit ==
    /\ commit_pc = "resolve"
    /\ LET sha == request.commit_sha
           stop(stage) ==
               /\ diagnostics' =
                     <<IndexingDiagnostic("error", stage, Absent, sha)>>
               /\ file_paths' = <<>>
               /\ commit_pc' = "return"
           loop(paths) ==
               /\ diagnostics' = <<>>
               /\ file_paths' = paths
               /\ commit_pc' = "files"
       IN IF request.service \notin service_repo_map
          THEN stop("resolve") /\ UNCHANGED adapter_calls
          ELSE IF request.file_paths # <<>>
               THEN loop(request.file_paths) /\ UNCHANGED adapter_calls
               ELSE /\ adapter_calls' = adapter_calls + 1
                    /\ IF repo.changed[sha].raises
                       THEN stop("list_files")
                       ELSE loop(repo.changed[sha].items)
    /\ total_upserted' = 0
    /\ UNCHANGED <<props, safe_props, backfill, relations, relations_raised>>
    /\ UNCHANGED <<service_repo_map, repo, store_before, graph_store, request,
                   store_calls, written, index_calls>>
    /\ UNCHANGED <<brainVars, indexVars, runs>>

\* _index_file(path) up to the hunk projection: get_diff, the deletion
\* test, get_file and the parser.  A failure ends the file with a diagnostic.
_index_file ==
    /\ commit_pc = "files"
    /\ index_pc = "idle"
    /\ file_paths # <<>>
    /\ LET path == Head(file_paths)
           sha == request.commit_sha
           out == repo.file[sha, path]
           fail(severity, stage, asked) ==
               /\ diagnostics' =
                     Append(diagnostics,
                            IndexingDiagnostic(severity, stage, path, sha))
               /\ file_paths' = Tail(file_paths)
               /\ adapter_calls' = adapter_calls + asked
               /\ UNCHANGED indexVars
       IN CASE out.kind = "diff_raises" -> fail("error", "diff", 1)
            [] out.kind = "file_raises" -> fail("error", "parse", 2)
            [] out.kind = "parse_raises" -> fail("warning", "parse", 2)
            [] out.kind = "no_nodes" -> fail("warning", "parse", 2)
            [] out.kind = "deleted" ->
                  /\ index_pc' = "retain"
                  /\ adapter_calls' = adapter_calls + 1
                  /\ UNCHANGED <<raw_diff, file_content, upsert_nodes,
                                 diagnostics, file_paths>>
            [] out.kind = "source" ->
                  /\ index_pc' = "project"
                  /\ raw_diff' = out.diff
                  /\ file_content' = out.content
                  /\ upsert_nodes' = out.nodes
                  /\ adapter_calls' = adapter_calls + 2
                  /\ UNCHANGED <<diagnostics, file_paths>>
    /\ UNCHANGED <<props, safe_props, backfill, relations, relations_raised>>
    /\ UNCHANGED <<service_repo_map, repo, store_before, graph_store, commit_pc,
                   request, total_upserted, store_calls, written,
                   index_calls>>
    /\ UNCHANGED <<brainVars, runs>>

\* A store call of the indexer: which call, and whether it succeeded.
StoreCall(call, ok) == [call |-> call, ok |-> ok]

\* Mutant: the loop of index_commit ends with this file.
FileDoneAbort ==
    /\ file_paths' = <<>>
    /\ index_pc' = "idle"
    /\ raw_diff' = NoDiff
    /\ file_content' = 0
    /\ upsert_nodes' = <<>>

\* The end of a file of the loop of index_commit.
FileDone ==
    /\ file_paths' = Tail(file_paths)
    /\ index_pc' = "idle"
    /\ raw_diff' = NoDiff
    /\ file_content' = 0
    /\ upsert_nodes' = <<>>

\* Mutant: a failing upsert is swallowed without a diagnostic.
UpsertSilently(chunk_nodes, count, ok) ==
    IF ok
    THEN /\ graph_store' = StoreUpsert(graph_store, chunk_nodes)
         /\ total_upserted' = total_upserted + count
         /\ written' = written \cup {chunk_nodes[i].id_ :
                                        i \in 1..Len(chunk_nodes)}
         /\ UNCHANGED diagnostics
    ELSE UNCHANGED <<graph_store, total_upserted, written, diagnostics>>

\* _upsert(nodes) as _index_file and _retain_deleted_nodes call it:
\* upsert_nodes of the store succeeds, and `count` nodes are counted, or it
\* raises, nothing is written and error/upsert is recorded.
UpsertOrDiagnose(chunk_nodes, count, ok) ==
    IF ok
    THEN /\ graph_store' = StoreUpsert(graph_store, chunk_nodes)
         /\ total_upserted' = total_upserted + count
         /\ written' = written \cup {chunk_nodes[i].id_ :
                                        i \in 1..Len(chunk_nodes)}
         /\ UNCHANGED diagnostics
    ELSE /\ diagnostics' =
               Append(diagnostics,
                      IndexingDiagnostic("error", "upsert", Head(file_paths),
                                         request.commit_sha))
         /\ UNCHANGED <<graph_store, total_upserted, written>>

\* Relation(source_id, target_id, label="CONTAINS").
Relation(source_id, target_id) ==
    [source_id |-> source_id, target_id |-> target_id, label |-> "CONTAINS"]

\* Mutant: the edge points from the child to the parent.
_build_contains_relations_up(nodes, service, commit_sha) ==
    LET id(k) == SymbolChunk(nodes[k], service, commit_sha).id_
        parent(k) == ScopeToNode(nodes, nodes[k].file_path,
                                 SubSeq(nodes[k].scopes, 1,
                                        Len(nodes[k].scopes) - 1))
    IN {Relation(id(k), id(parent(k))) :
           k \in {c \in 1..Len(nodes) :
                     /\ nodes[c].scopes # <<>>
                     /\ parent(c) # 0
                     /\ id(parent(c)) # id(c)}}

\* _build_contains_relations(nodes): for every node below the module, an
\* edge from the node that scope_to_id holds for its chain without the
\* last name (the last node of the file with that chain), unless there is
\* none or it has the id of the node itself.
_build_contains_relations(nodes, service, commit_sha) ==
    LET id(k) == SymbolChunk(nodes[k], service, commit_sha).id_
        parent(k) == ScopeToNode(nodes, nodes[k].file_path,
                                 SubSeq(nodes[k].scopes, 1,
                                        Len(nodes[k].scopes) - 1))
    IN {Relation(id(parent(k)), id(k)) :
           k \in {c \in 1..Len(nodes) :
                     /\ nodes[c].scopes # <<>>
                     /\ parent(c) # 0
                     /\ id(parent(c)) # id(c)}}

\* Mutant: a failure of the relation step is answered like a failure of
\* the node upsert: nothing is counted and error/upsert is recorded.
UpsertRelationsOrDiagnose(chunk_nodes, count, ok, rel_ok) ==
    /\ UpsertOrDiagnose(chunk_nodes, count, ok /\ rel_ok)
    /\ relations_raised' = (ok /\ ~rel_ok)
    /\ relations' =
          IF ok /\ rel_ok
          THEN relations \cup _build_contains_relations(
                                 upsert_nodes, request.service,
                                 request.commit_sha)
          ELSE relations

\* _index_file from _upsert(upsert_nodes) to its return: when the upsert
\* raised, (0, diagnostics) is returned at once; otherwise building and
\* upserting the CONTAINS relations succeeds or raises, and the exception is
\* passed over.
UpsertWithRelations(chunk_nodes, count, ok, rel_ok) ==
    /\ UpsertOrDiagnose(chunk_nodes, count, ok)
    /\ relations_raised' = (ok /\ ~rel_ok)
    /\ relations' =
          IF ok /\ rel_ok
          THEN relations \cup _build_contains_relations(
                                 upsert_nodes, request.service,
                                 request.commit_sha)
          ELSE relations

\* _index_file, the end: upsert the nodes of the file and their relations.
_upsert ==
    /\ commit_pc = "files"
    /\ index_pc = "upsert"
    /\ \E ok \in BOOLEAN, rel_ok \in BOOLEAN :
          /\ UpsertWithRelations(
                [i \in 1..Len(upsert_nodes) |->
                    SymbolChunk(upsert_nodes[i], request.service,
                                request.commit_sha)],
                Len(upsert_nodes), ok, rel_ok)
          /\ store_calls' = Append(store_calls, StoreCall("upsert", ok))
    /\ FileDone
    /\ UNCHANGED <<props, safe_props, backfill>>
    /\ UNCHANGED <<service_repo_map, repo, store_before, commit_pc, request,
                   adapter_calls, index_calls>>
    /\ UNCHANGED <<brainVars, runs>>

\* The elements of a finite set as a list.
RECURSIVE AsList(_)
AsList(S) ==
    IF S = {} THEN <<>>
    ELSE LET x == CHOOSE y \in S : TRUE
         IN <<x>> \o AsList(S \ {x})

\* _retain_deleted_nodes(path): the retriever answers (found) or raises and
\* counts as no node; the nodes of the path are retained as DELETED, or one
\* file tombstone is written when there is none.
_retain_deleted_nodes ==
    /\ commit_pc = "files"
    /\ index_pc = "retain"
    /\ \E found \in BOOLEAN, ok \in BOOLEAN :
          LET path == Head(file_paths)
              sha == request.commit_sha
              existing == IF found THEN NodesByPath(graph_store, path)
                          ELSE {}
              updated ==
                  IF existing = {}
                  THEN {Tombstone(path, request.service, sha)}
                  ELSE {Retained(n, path, sha) : n \in existing}
          IN /\ UpsertOrDiagnose(AsList(updated), Cardinality(updated), ok)
             /\ store_calls' = store_calls \o <<StoreCall("query", found),
                                                 StoreCall("upsert", ok)>>
    /\ FileDone
    /\ UNCHANGED <<props, safe_props, backfill, relations, relations_raised>>
    /\ UNCHANGED <<service_repo_map, repo, store_before, commit_pc, request,
                   adapter_calls, index_calls>>
    /\ UNCHANGED <<brainVars, runs>>

\* What a caller of index_commit got and saw: the request, the returned
\* (count, diagnostics), and as history the ids written, the store calls,
\* the number of adapter calls and the store before and after the call.
IndexCall ==
    [request |-> request, count |-> total_upserted,
     diagnostics |-> diagnostics, written |-> written,
     store_calls |-> store_calls, adapter_calls |-> adapter_calls,
     before |-> store_before, after |-> graph_store]

\* index_commit returns (total_upserted, diagnostics).
IndexCommitReturn ==
    /\ \/ commit_pc = "return"
       \/ commit_pc = "files" /\ file_paths = <<>> /\ index_pc = "idle"
    /\ commit_pc' = "returned"
    /\ index_calls' = Append(index_calls, IndexCall)
    /\ UNCHANGED <<props, safe_props, backfill, relations, relations_raised>>
    /\ UNCHANGED <<service_repo_map, repo, store_before, graph_store, request,
                   file_paths, total_upserted, diagnostics, store_calls,
                   written, adapter_calls>>
    /\ UNCHANGED <<brainVars, indexVars, runs>>

CommitNext ==
    \/ CallIndexCommit
    \/ index_commit
    \/ _index_file
    \/ ProjectHunks
    \/ PropagateStatus
    \/ AssignText
    \/ _upsert
    \/ _retain_deleted_nodes
    \/ IndexCommitReturn

\* The nodes _index_file hands to _upsert for a parsed file: the hunk
\* projection, the propagation and the text assignment in one.
IndexedNodes(out) ==
    LET projected ==
            [i \in 1..Len(out.nodes) |->
                LET st == ProjectedStatus(out.diff, out.nodes[i].start_line,
                                          out.nodes[i].end_line)
                IN [out.nodes[i] EXCEPT !.status = st, !.projected = st]]
        final == _propagate_status_upward(projected)
    IN [i \in 1..Len(final) |->
           [final[i] EXCEPT !.text =
               _node_text(final[i].status, final[i].start_line,
                          final[i].end_line, out.diff, out.content)]]

\* The store after an earlier commit c0 that added a.py was indexed.
SeedStore ==
    StoreUpsert({}, [i \in 1..Len(IndexedNodes(AddedFile("a.py"))) |->
                       SymbolChunk(IndexedNodes(AddedFile("a.py"))[i],
                                   Service, "c0")])

\* Calls of index_commit on an indexer whose store is empty or holds the
\* nodes of an earlier commit.
CommitInit ==
    /\ BrainIdle
    /\ IndexerIdle
    /\ service_repo_map = {Service}
    /\ repo \in Repos
    /\ graph_store \in {{}, SeedStore}
    /\ commit_pc = "idle"
    /\ request = NoRequest
    /\ file_paths = <<>>
    /\ total_upserted = 0
    /\ diagnostics = <<>>
    /\ store_calls = <<>>
    /\ written = {}
    /\ store_before = {}
    /\ adapter_calls = 0
    /\ index_calls = <<>>
    /\ backfill = NoBackfill
    /\ props = NoProps
    /\ safe_props = NotSanitized
    /\ relations = {}
    /\ relations_raised = FALSE

CommitSpec == CommitInit /\ [][CommitNext]_vars

\* A module with class A on lines 1-2 (method B on line 2) and a second
\* definition of class A on lines 3-MaxLine (method C on the last line),
\* line 1 changed.
NestedFile(path) ==
    FileOutcome("source",
                [added |-> FALSE, parsed |-> TRUE,
                 hunks |-> <<Hunk(1, 1, <<"-", "+">>)>>],
                MaxLine,
                <<Node(path, <<>>, 1, MaxLine, ""),
                  Node(path, <<"A">>, 1, 2, ""),
                  Node(path, <<"A", "B">>, 2, 2, ""),
                  Node(path, <<"A">>, 3, MaxLine, ""),
                  Node(path, <<"A", "C">>, MaxLine, MaxLine, "")>>)

\* Repositories whose a.py has nested scopes at one of the commits.
RelationRepos ==
    {[commits |-> Listing(FALSE, <<>>),
      changed |-> [c \in Commits |-> Listing(FALSE, <<"a.py", "b.py">>)],
      file |-> [x \in Commits \X Files |->
                   IF x[2] = "b.py" THEN b
                   ELSE IF x[1] = "c1" THEN a1 ELSE a2]] :
        b \in {PlainFile("b.py"), Failing("deleted")},
        a1 \in {NestedFile("a.py"), AddedFile("a.py")},
        a2 \in {NestedFile("a.py"), ModifiedFile("a.py"), Failing("deleted")}}

\* Calls of index_commit on an indexer with an empty store.
RelationInit ==
    /\ BrainIdle
    /\ IndexerIdle
    /\ service_repo_map = {Service}
    /\ repo \in RelationRepos
    /\ graph_store = {}
    /\ commit_pc = "idle"
    /\ request = NoRequest
    /\ file_paths = <<>>
    /\ total_upserted = 0
    /\ diagnostics = <<>>
    /\ store_calls = <<>>
    /\ written = {}
    /\ store_before = {}
    /\ adapter_calls = 0
    /\ index_calls = <<>>
    /\ backfill = NoBackfill
    /\ props = NoProps
    /\ safe_props = NotSanitized
    /\ relations = {}
    /\ relations_raised = FALSE

RelationSpec == RelationInit /\ [][CommitNext]_vars

\* ------------------------------------------------------ BackfillRunner
\* policy.batch_size is drawn from 1..MaxBatch.
MaxBatch == 3

\* The commits list_commits can return, oldest first.
BackfillCommits == <<"c1", "c2", "c3">>

\* Repositories whose list_commits raises or returns a prefix of
\* BackfillCommits; every commit changes a.py and b.py.
BackfillRepos ==
    {[commits |-> l,
      changed |-> [c \in Commits \cup {"c3"} |->
                      Listing(FALSE, <<"a.py", "b.py">>)],
      file |-> [x \in (Commits \cup {"c3"}) \X Files |->
                   IF x[2] = "b.py" THEN PlainFile("b.py")
                   ELSE IF x[1] = "c1" THEN a1
                   ELSE IF x[1] = "c2" THEN a2
                   ELSE Failing("deleted")]] :
        l \in {Listing(TRUE, <<>>)}
                 \cup {Listing(FALSE, SubSeq(BackfillCommits, 1, n)) :
                          n \in 0..Len(BackfillCommits)},
        a1 \in {AddedFile("a.py"), Failing("diff_raises")},
        a2 \in {ModifiedFile("a.py"), Failing("deleted")}}

\* A caller calls run(service, policy) or onboard_service(service, policy).
CallBackfill ==
    /\ backfill.pc = "idle"
    /\ commit_pc = "idle"
    /\ \E entry \in {"run", "onboard_service"},
          service \in {Service, UnknownService},
          batch_size \in 1..MaxBatch :
          backfill' = [NoBackfill EXCEPT !.pc = entry, !.entry = entry,
                                         !.service = service,
                                         !.batch_size = batch_size]
    /\ UNCHANGED <<props, safe_props, relations, relations_raised>>
    /\ UNCHANGED <<service_repo_map, repo, graph_store, commit_pc, request,
                   file_paths, total_upserted, diagnostics, store_calls,
                   written, store_before, adapter_calls, index_calls>>
    /\ UNCHANGED <<brainVars, indexVars, runs>>

\* onboard_service: KeyError for a service that is not registered,
\* otherwise run(service, policy).
onboard_service ==
    /\ backfill.pc = "onboard_service"
    /\ backfill' =
          IF backfill.service \notin service_repo_map
          THEN [backfill EXCEPT !.pc = "raised", !.raised = "KeyError"]
          ELSE [backfill EXCEPT !.pc = "run"]
    /\ UNCHANGED <<props, safe_props, relations, relations_raised>>
    /\ UNCHANGED <<service_repo_map, repo, graph_store, commit_pc, request,
                   file_paths, total_upserted, diagnostics, store_calls,
                   written, store_before, adapter_calls, index_calls>>
    /\ UNCHANGED <<brainVars, indexVars, runs>>

\* Mutant: run goes on to list_commits for a service without an entry.
run_unguarded ==
    /\ backfill.pc = "run"
    /\ LET stop(severity) ==
               [backfill EXCEPT
                   !.pc = "returned",
                   !.adapter_calls = 1,
                   !.diagnostics =
                       <<IndexingDiagnostic(severity, "backfill",
                                            Absent, Absent)>>]
       IN backfill' =
             IF repo.commits.raises THEN stop("error")
             ELSE IF repo.commits.items = <<>> THEN stop("warning")
             ELSE [backfill EXCEPT !.pc = "batch",
                                   !.adapter_calls = 1,
                                   !.commit_shas = repo.commits.items]
    /\ UNCHANGED <<props, safe_props, relations, relations_raised>>
    /\ UNCHANGED <<service_repo_map, repo, graph_store, commit_pc, request,
                   file_paths, total_upserted, diagnostics, store_calls,
                   written, store_before, adapter_calls, index_calls>>
    /\ UNCHANGED <<brainVars, indexVars, runs>>

\* run up to its loop: the service check and list_commits.
run ==
    /\ backfill.pc = "run"
    /\ LET stop(severity, listed) ==
               [backfill EXCEPT
                   !.pc = "returned",
                   !.adapter_calls = listed,
                   !.diagnostics =
                       <<IndexingDiagnostic(severity, "backfill",
                                            Absent, Absent)>>]
       IN backfill' =
             IF backfill.service \notin service_repo_map
             THEN stop("error", 0)
             ELSE IF repo.commits.raises THEN stop("error", 1)
             ELSE IF repo.commits.items = <<>> THEN stop("warning", 1)
             ELSE [backfill EXCEPT !.pc = "batch",
                                   !.adapter_calls = 1,
                                   !.commit_shas = repo.commits.items]
    /\ UNCHANGED <<props, safe_props, relations, relations_raised>>
    /\ UNCHANGED <<service_repo_map, repo, graph_store, commit_pc, request,
                   file_paths, total_upserted, diagnostics, store_calls,
                   written, store_before, adapter_calls, index_calls>>
    /\ UNCHANGED <<brainVars, indexVars, runs>>

\* Mutant: a batch ends one commit early.
BatchShort(commit_shas, batch_start, batch_size) ==
    SubSeq(commit_shas, batch_start + 1,
           IF batch_start + batch_size <= Len(commit_shas)
           THEN batch_start + batch_size - 1 ELSE Len(commit_shas) - 1)

\* commit_shas[batch_start : batch_start + batch_size]
Batch(commit_shas, batch_start, batch_size) ==
    SubSeq(commit_shas, batch_start + 1,
           IF batch_start + batch_size <= Len(commit_shas)
           THEN batch_start + batch_size ELSE Len(commit_shas))

\* The outer loop of run: the next batch, or the return after the last.
RunBatch ==
    /\ backfill.pc = "batch"
    /\ backfill' =
          IF backfill.batch_start >= Len(backfill.commit_shas)
          THEN [backfill EXCEPT !.pc = "returned"]
          ELSE [backfill EXCEPT
                   !.pc = "commit",
                   !.batch = Batch(backfill.commit_shas,
                                   backfill.batch_start,
                                   backfill.batch_size)]
    /\ UNCHANGED <<props, safe_props, relations, relations_raised>>
    /\ UNCHANGED <<service_repo_map, repo, graph_store, commit_pc, request,
                   file_paths, total_upserted, diagnostics, store_calls,
                   written, store_before, adapter_calls, index_calls>>
    /\ UNCHANGED <<brainVars, indexVars, runs>>

\* The inner loop of run: index_commit is called for the next sha of the
\* batch; after the last one the outer loop goes on.
RunCommit ==
    /\ backfill.pc = "commit"
    /\ IF backfill.batch = <<>>
       THEN /\ backfill' =
                  [backfill EXCEPT
                      !.pc = "batch",
                      !.batch_start = backfill.batch_start
                                         + backfill.batch_size]
            /\ UNCHANGED <<commit_pc, request, file_paths, total_upserted,
                           diagnostics, store_calls, written, store_before,
                           adapter_calls>>
       ELSE /\ backfill' = [backfill EXCEPT !.pc = "index_commit"]
            /\ request' = [service |-> backfill.service,
                           commit_sha |-> Head(backfill.batch),
                           file_paths |-> <<>>]
            /\ commit_pc' = "resolve"
            /\ file_paths' = <<>>
            /\ total_upserted' = 0
            /\ diagnostics' = <<>>
            /\ store_calls' = <<>>
            /\ written' = {}
            /\ adapter_calls' = 0
            /\ store_before' = graph_store
    /\ UNCHANGED <<props, safe_props, relations, relations_raised>>
    /\ UNCHANGED <<service_repo_map, repo, graph_store, index_calls>>
    /\ UNCHANGED <<brainVars, indexVars, runs>>

\* index_commit has returned to run: the totals and the diagnostics.
RunCommitDone ==
    /\ backfill.pc = "index_commit"
    /\ commit_pc = "returned"
    /\ backfill' =
          [backfill EXCEPT
              !.pc = "commit",
              !.batch = Tail(backfill.batch),
              !.total_nodes = backfill.total_nodes
                                 + index_calls[Len(index_calls)].count,
              !.total_commits = backfill.total_commits + 1,
              !.diagnostics =
                  backfill.diagnostics
                     \o index_calls[Len(index_calls)].diagnostics]
    /\ UNCHANGED <<props, safe_props, relations, relations_raised>>
    /\ UNCHANGED <<service_repo_map, repo, graph_store, commit_pc, request,
                   file_paths, total_upserted, diagnostics, store_calls,
                   written, store_before, adapter_calls, index_calls>>
    /\ UNCHANGED <<brainVars, indexVars, runs>>

BackfillNext ==
    \/ CallBackfill
    \/ onboard_service
    \/ run
    \/ RunBatch
    \/ RunCommit
    \/ RunCommitDone
    \/ CallIndexCommit
    \/ index_commit
    \/ _index_file
    \/ ProjectHunks
    \/ PropagateStatus
    \/ AssignText
    \/ _upsert
    \/ _retain_deleted_nodes
    \/ IndexCommitReturn

\* A runner and an indexer over an empty store; the caller backfills a
\* service or calls index_commit itself.
BackfillInit ==
    /\ BrainIdle
    /\ IndexerIdle
    /\ service_repo_map = {Service}
    /\ repo \in BackfillRepos
    /\ graph_store = {}
    /\ commit_pc = "idle"
    /\ request = NoRequest
    /\ file_paths = <<>>
    /\ total_upserted = 0
    /\ diagnostics = <<>>
    /\ store_calls = <<>>
    /\ written = {}
    /\ store_before = {}
    /\ adapter_calls = 0
    /\ index_calls = <<>>
    /\ backfill = NoBackfill
    /\ props = NoProps
    /\ safe_props = NotSanitized
    /\ relations = {}
    /\ relations_raised = FALSE

BackfillSpec == BackfillInit /\ [][BackfillNext]_vars

\* Repositories in which c1 adds a.py, c2 changes it and c3 deletes it or
\* changes it; list_commits returns the commits newest first (as the
\* adapter's contract has it), oldest first, or c1, c3, c2.
ReplayRepos ==
    {[commits |-> Listing(FALSE, l),
      changed |-> [c \in Commits \cup {"c3"} |->
                      Listing(FALSE, <<"a.py", "b.py">>)],
      file |-> [x \in (Commits \cup {"c3"}) \X Files |->
                   IF x[2] = "b.py" THEN PlainFile("b.py")
                   ELSE IF x[1] = "c1" THEN AddedFile("a.py")
                   ELSE IF x[1] = "c2" THEN a2
                   ELSE a3]] :
        l \in {<<"c3", "c2", "c1">>, <<"c1", "c2", "c3">>,
               <<"c1", "c3", "c2">>},
        a2 \in {ModifiedFile("a.py"), ShiftedFile("a.py")},
        a3 \in {Failing("deleted"), ModifiedFile("a.py")}}

\* A runner and an indexer over an empty store and one of those
\* repositories.
ReplayInit ==
    /\ BrainIdle
    /\ IndexerIdle
    /\ service_repo_map = {Service}
    /\ repo \in ReplayRepos
    /\ graph_store = {}
    /\ commit_pc = "idle"
    /\ request = NoRequest
    /\ file_paths = <<>>
    /\ total_upserted = 0
    /\ diagnostics = <<>>
    /\ store_calls = <<>>
    /\ written = {}
    /\ store_before = {}
    /\ adapter_calls = 0
    /\ index_calls = <<>>
    /\ backfill = NoBackfill
    /\ props = NoProps
    /\ safe_props = NotSanitized
    /\ relations = {}
    /\ relations_raised = FALSE

ReplaySpec == ReplayInit /\ [][BackfillNext]_vars

\* ------------------------------------------------ _sanitize_properties
\* Metadata values.  A value is a record of its Python type, its literal
\* (for a primitive) and its elements (for a list or a dict, the values).
\* json.dumps(v) and str(v) give strings that hold the value they encode.
MaxElems == 2
Value(type, text, items) == [type |-> type, text |-> text, items |-> items]
_PRIMITIVE == {"str", "int", "float", "bool"}
Primitives ==
    {Value("str", "a", <<>>), Value("int", "1", <<>>),
     Value("float", "1.5", <<>>), Value("bool", "True", <<>>)}
None == Value("none", "None", <<>>)
Object == Value("object", "o", <<>>)
Dicts ==
    {Value("dict", "", items) :
        items \in {<<>>, <<Value("str", "a", <<>>)>>, <<Object>>}}
Elements ==
    {Value("str", "a", <<>>), Value("int", "1", <<>>), None, Object,
     Value("dict", "", <<>>)}
Lists ==
    {Value("list", "", items) :
        items \in UNION {[1..n -> Elements] : n \in 0..MaxElems}}
Values == Primitives \cup {None, Object} \cup Dicts \cup Lists
PropertyKeys == {"inclusive_scopes", "prior_path"}

\* json.dumps(v) raises TypeError for a value it cannot serialise.
Serializable(v) ==
    /\ v.type # "object"
    /\ \A i \in 1..Len(v.items) :
          /\ v.items[i].type # "object"
          /\ \A j \in 1..Len(v.items[i].items) :
                v.items[i].items[j].type # "object"
JsonDumps(v) == Value("str", "json", <<v>>)
Str(v) == Value("str", "str", <<v>>)

\* Mutant: a dict is stringified.
SanitizeValueStr(v) ==
    IF v.type \in _PRIMITIVE THEN v
    ELSE IF v.type = "list"
         THEN IF \A i \in 1..Len(v.items) : v.items[i].type \in _PRIMITIVE
              THEN v ELSE JsonDumps(v)
         ELSE Str(v)

\* One turn of the loop of _sanitize_properties for a value that is not
\* None and can be serialised.
SanitizeValue(v) ==
    IF v.type \in _PRIMITIVE THEN v
    ELSE IF v.type = "list"
         THEN IF \A i \in 1..Len(v.items) : v.items[i].type \in _PRIMITIVE
              THEN v ELSE JsonDumps(v)
         ELSE IF v.type = "dict" THEN JsonDumps(v)
         ELSE Str(v)

\* _sanitize_properties(props): the clean dict, or the TypeError of
\* json.dumps.
_sanitize_properties(ps) ==
    LET kept == {k \in DOMAIN ps : ps[k].type # "none"}
        dumped == {k \in kept :
                      \/ ps[k].type = "dict"
                      \/ /\ ps[k].type = "list"
                         /\ \E i \in 1..Len(ps[k].items) :
                               ps[k].items[i].type \notin _PRIMITIVE}
    IN IF \E k \in dumped : ~Serializable(ps[k])
       THEN [raised |-> "TypeError", clean |-> <<>>, done |-> TRUE]
       ELSE [raised |-> "", done |-> TRUE,
             clean |-> [k \in kept |-> SanitizeValue(ps[k])]]

\* _upsert converts the metadata of a node into the properties of its
\* ChunkNode.
SanitizeNode ==
    /\ ~safe_props.done
    /\ safe_props' = _sanitize_properties(props)
    /\ UNCHANGED <<props, backfill, relations, relations_raised>>
    /\ UNCHANGED <<service_repo_map, repo, graph_store, commit_pc, request,
                   file_paths, total_upserted, diagnostics, store_calls,
                   written, store_before, adapter_calls, index_calls>>
    /\ UNCHANGED <<brainVars, indexVars, runs>>

SanitizeNext == SanitizeNode

\* A node with any metadata is about to be converted.
SanitizeInit ==
    /\ BrainIdle
    /\ IndexerIdle
    /\ service_repo_map = {}
    /\ repo = NoRepo
    /\ graph_store = {}
    /\ commit_pc = "idle"
    /\ request = NoRequest
    /\ file_paths = <<>>
    /\ total_upserted = 0
    /\ diagnostics = <<>>
    /\ store_calls = <<>>
    /\ written = {}
    /\ store_before = {}
    /\ adapter_calls = 0
    /\ index_calls = <<>>
    /\ backfill = NoBackfill
    /\ props \in [PropertyKeys -> Values]
    /\ safe_props = NotSanitized
    /\ relations = {}
    /\ relations_raised = FALSE

SanitizeSpec == SanitizeInit /\ [][SanitizeNext]_vars

\* ==================================================================
\* Properties
\* ==================================================================
Stages == {"supervisor", "mesh_scout", "git_scout", "metric_analyst",
           "rca_synthesizer", "critic", "fix_advisor"}
Last(q) == q[Len(q)]

\* C1: when the critic stage has run without raising, the stage that runs
\* next is fix_advisor if critic_score >= critic_threshold or iteration >=
\* max_iterations, and supervisor otherwise (so the loop back to supervisor
\* is taken only with critic_score < critic_threshold and iteration <
\* max_iterations).
C1_RouteAfterCritic ==
    [][(pc = "critic" /\ pc' # "except") =>
          pc' = IF \/ state'.critic_score >= config.critic_threshold
                   \/ state'.iteration >= config.max_iterations
                THEN "fix_advisor" ELSE "supervisor"]_vars

\* C1 witness: the critic ran and the run looped back to the supervisor.
C1_Witness ==
    /\ lastStage = "critic"
    /\ pc = "supervisor"
    /\ state.critic_score < config.critic_threshold
    /\ state.iteration < config.max_iterations

\* C2: a run whose graph reached END and that raised nothing returns a
\* report that is completed exactly if the final critic_score >=
\* critic_threshold or the final fix_confidence >= fix_confidence_threshold,
\* and escalated otherwise; the report carries those final scores.
C2_StatusRule ==
    (pc = "returned" /\ exc = NoExc) =>
        /\ report.critic_score = state.critic_score
        /\ report.fix_confidence = state.fix_confidence
        /\ (report.status = "completed" <=>
               \/ state.critic_score >= config.critic_threshold
               \/ state.fix_confidence >= config.fix_confidence_threshold)
        /\ (report.status = "escalated" <=>
               /\ state.critic_score < config.critic_threshold
               /\ state.fix_confidence < config.fix_confidence_threshold)

\* C2 witness: max_iterations exhausted with a low critic score, and the
\* report is completed because fix_confidence reached its threshold.
C2_Witness ==
    /\ pc = "returned"
    /\ exc = NoExc
    /\ state.iteration >= config.max_iterations
    /\ state.critic_score < config.critic_threshold
    /\ state.fix_confidence >= config.fix_confidence_threshold
    /\ report.status = "completed"

MaxEntries == Max(1, config.max_iterations)

C5_ReportPersisted ==
    pc = "returned" =>
        /\ get(repository, incident.incident_id) = report
        /\ \A i \in IncidentIds \ {incident.incident_id} :
              get(repository, i) = IF i = "inc-1" THEN StaleReport ELSE NoReport

\* C5 witness: a failed run replaced the older report of its incident.
C5_Witness ==
    /\ pc = "returned"
    /\ incident.incident_id = "inc-1"
    /\ report.status = "failed"
    /\ get(repository, "inc-1") # StaleReport

\* C6: iteration is the number of supervisor entries so far, in every state
\* of a run (0 at the start, +1 per supervisor entry, no other change).
C6_IterationCountsEntries == state.iteration = supervisorEntries

\* C6 witness: the second supervisor entry has happened, later stages ran.
C6_Witness == supervisorEntries = 2 /\ pc = "critic"

\* The declared contract of a stage, on the state the stage wrote: required
\* strings non-empty, required lists non-empty, scores within [0,1].
ContractViolated(stage, s) ==
    CASE stage = "supervisor" ->
            s.task_plan \in {"", NonString} \/ s.evidence_refs = <<>>
      [] stage = "mesh_scout" ->
            s.suspect_services = <<>> \/ s.mesh_summary \in {"", NonString}
      [] stage = "git_scout" -> s.git_summary \in {"", NonString}
      [] stage = "metric_analyst" ->
            s.metrics_summary \in {"", NonString} \/ s.evidence_refs = <<>>
      [] stage = "rca_synthesizer" -> s.hypotheses = <<>>
      [] stage = "critic" ->
            \/ s.critic_score < 0 \/ s.critic_score > 100
            \/ s.critic_reasoning \in {"", NonString}
      [] stage = "fix_advisor" ->
            \/ s.fix_confidence < 0 \/ s.fix_confidence > 100
            \/ s.fix_summary \in {"", NonString}
            \/ s.fix_reasoning \in {"", NonString}
      [] OTHER -> FALSE

\* C7: when the state a stage wrote violates the stage's contract, the
\* stage has raised: no stage runs on that state and the run ends failed.
C7_ViolationIsFatal ==
    ContractViolated(lastStage, state) =>
        /\ exc # NoExc
        /\ pc \notin Stages
        /\ pc # "END"
        /\ pc \in {"log", "returned"} => report.status = "failed"

\* C7 witness: the synthesizer wrote an empty hypothesis list and the run
\* returned.
C7_Witness ==
    /\ lastStage = "rca_synthesizer"
    /\ state.hypotheses = <<>>
    /\ pc = "returned"

\* The outcome C8 describes for a stub run whose final iteration is n and
\* whose critic score is cs.
StubOutcome(n, cs) ==
    LET dep == incident.deployment_id # "none"
        c == IF dep THEN 86 ELSE 62
        title == IF dep THEN "Recent rollout regression"
                 ELSE "Traffic or dependency instability"
    IN /\ report.hypotheses = <<[title |-> title, confidence |-> c]>>
       /\ report.iteration = n
       /\ report.critic_score = cs
       /\ report.fix_confidence = (9 * c + 5) \div 10
       /\ report.status =
             IF \/ report.critic_score >= config.critic_threshold
                \/ report.fix_confidence >= config.fix_confidence_threshold
             THEN "completed" ELSE "escalated"
       /\ (dep /\ config.critic_threshold = 80
               /\ config.fix_confidence_threshold = 75) =>
             /\ report.status = "completed"
             /\ report.iteration = 1
             /\ report.critic_score = 86
             /\ report.fix_confidence = 77
       /\ (~dep /\ config.critic_threshold = 90 /\ config.max_iterations = 2) =>
             /\ report.iteration = 2
             /\ report.critic_score < 90
             /\ report.fix_confidence < 75
             /\ config.fix_confidence_threshold = 75 =>
                   report.status = "escalated"

StubConfidence == IF incident.deployment_id # "none" THEN 86 ELSE 62

SynthesizerWroteNone ==
    /\ lastStage \in {"rca_synthesizer", "critic", "fix_advisor"}
    /\ state.hypotheses = <<>>

ParseErrorOf(stage) ==
    CASE stage = "rca_synthesizer" -> "synthesizer_parse_error"
      [] stage = "critic" -> "critic_parse_error"
      [] stage = "fix_advisor" -> "fix_advisor_parse_error"
      [] OTHER -> "none"

\* The fallback output of a stage is in the state.
FallbackWritten(stage, s) ==
    CASE stage = "rca_synthesizer" ->
            s.hypotheses = <<[title |-> "Unknown root cause", confidence |-> 30]>>
      [] stage = "critic" ->
            /\ \E i \in 1..Len(s.hypotheses) :
                  /\ \A j \in 1..Len(s.hypotheses) :
                        s.hypotheses[j].confidence <= s.hypotheses[i].confidence
                  /\ s.critic_score =
                        Max(0, s.hypotheses[i].confidence - 2 * (s.iteration - 1))
            /\ s.critic_reasoning = Text
      [] stage = "fix_advisor" ->
            /\ s.fix_confidence = 0
            /\ s.fix_summary = Text
            /\ s.fix_reasoning = Text
      [] OTHER -> FALSE

\* C10: when the JSON answer to rca_synthesizer, critic or fix_advisor was
\* unusable (generate_json raised, or its value made the parsing raise),
\* the stage has appended its *_parse_error to errors and written its
\* fallback output and has not raised; every such failure of a run is one
\* entry of errors, and a run in which no stage raised returns a completed
\* or escalated report that holds them all.
C10_ParseFailureRecovered ==
    /\ parseFailed =>
          /\ lastStage \in {"rca_synthesizer", "critic", "fix_advisor"}
          /\ exc = NoExc
          /\ pc # "except"
          /\ state.errors # <<>>
          /\ Last(state.errors) = ParseErrorOf(lastStage)
          /\ FallbackWritten(lastStage, state)
    /\ Len(state.errors) = parseFailures
    /\ (pc \in {"log", "returned"} /\ exc = NoExc) =>
          /\ report.status \in {"completed", "escalated"}
          /\ report.errors = state.errors

\* C10 witness: all three stages fell back in one run, which returned an
\* escalated report holding the three errors.
C10_Witness ==
    /\ pc = "returned"
    /\ parseFailures = 3
    /\ report.status = "escalated"
    /\ report.hypotheses = <<[title |-> "Unknown root cause", confidence |-> 30]>>
    /\ report.errors = <<"synthesizer_parse_error", "critic_parse_error",
                         "fix_advisor_parse_error">>

\* Messages of the exceptions that are failures of an LLM call.
LlmCallFailures ==
    {"supervisor: llm.generate failed", "git_scout: llm.generate failed",
     "metric_analyst: llm.generate failed"}

\* C11 as stated: an exception of an LLM call never leaves the stage that
\* made the call, so no report is failed because of an LLM failure alone.
C11_AsStated ==
    /\ exc \notin LlmCallFailures
    /\ (pc = "returned" /\ report.status = "failed") =>
          report.errors \notin {<<m>> : m \in LlmCallFailures}

\* C12 as stated: every error a stage appended to state.errors is in the
\* errors of the report the run returns, whatever the terminal status.
C12_AsStated ==
    pc = "returned" => SeqToSet(state.errors) \subseteq SeqToSet(report.errors)

\* C13: critic_score, fix_confidence and every hypothesis confidence are in
\* [0,1] in every state of a run and in every report; a score outside the
\* range in the LLM's answer is stored clamped (1 for more than 1, 0 for
\* less than 0), never as given.
C13_ScoresInUnit ==
    /\ InUnit(state.critic_score)
    /\ InUnit(state.fix_confidence)
    /\ \A i \in 1..Len(state.hypotheses) : InUnit(state.hypotheses[i].confidence)
    /\ report # NoReport =>
          /\ InUnit(report.critic_score)
          /\ InUnit(report.fix_confidence)
          /\ \A i \in 1..Len(report.hypotheses) :
                InUnit(report.hypotheses[i].confidence)

\* C13 witness: the LLM answered the critic with a score above 1 and the
\* fix advisor with a confidence below 0 (no stub or fallback score is 1,
\* and no hypothesis is missing); the report holds 1 and 0.
C13_Witness ==
    /\ pc = "returned"
    /\ config.llm
    /\ parseFailures = 0
    /\ report.hypotheses # <<>>
    /\ report.critic_score = 100
    /\ report.fix_confidence = 0

NoDuplicates(q) == \A i, j \in 1..Len(q) : q[i] = q[j] => i = j

\* C14 as stated: the state a stage returns holds no evidence reference
\* twice.
C14_AsStated ==
    (lastStage \in Stages /\ exc = NoExc) => NoDuplicates(state.evidence_refs)

\* suspect_services is empty, or starts with the incident's service and
\* holds no service twice.
ServiceFirst(svcs) ==
    svcs # <<>> => (svcs[1] = Service /\ NoDuplicates(svcs))

\* C15 as stated: in every state a stage produced, suspect_services is
\* empty or starts with incident.service and has no duplicates, whatever
\* suspect_services the stage was given.
C15_AsStated ==
    lastStage \in Stages => ServiceFirst(state.suspect_services)

\* What a step of the stage at pc makes of the suspect_services it is given.
SuspectsStep(given, result) ==
    CASE pc = "mesh_scout" -> result # <<>> /\ ServiceFirst(result)
      [] pc = "supervisor" ->
            /\ result # <<>>
            /\ NoDuplicates(result)
            /\ Service \in SeqToSet(result)
            /\ (Service \notin SeqToSet(given) \/ given[1] = Service)
                  => result[1] = Service
            /\ (Service \in SeqToSet(given) /\ given[1] # Service)
                  => result = _dedupe(given)
      [] pc = "metric_analyst" ->
            /\ ServiceFirst(given) => ServiceFirst(result)
            /\ Len(given) > 1 => result = given
            /\ result # given => (result # <<>> /\ ServiceFirst(result))
      [] OTHER -> result = given

\* C15 amended: mesh_scout writes a non-empty suspect_services that starts
\* with incident.service and has no duplicates, whatever it is given;
\* supervisor writes a duplicate-free list that contains incident.service,
\* first unless the given list held it at a later place; metric_analyst
\* keeps a given list of two or more and otherwise either keeps the list or
\* writes one that starts with incident.service; no other stage changes
\* the list.  So once mesh_scout has run, and in every state of an engine
\* run, a non-empty suspect_services starts with incident.service and has
\* no duplicates.
C15_ServiceFirst ==
    /\ [][SuspectsStep(state.suspect_services, state'.suspect_services)]_vars
    /\ [](state.mesh_summary # "" =>
             (state.suspect_services # <<>>
                 /\ ServiceFirst(state.suspect_services)))

\* C15 witness: mesh_scout, called before any supervisor entry, wrote the
\* incident's service and the degraded upstream found in the mesh events.
C15_Witness ==
    /\ lastStage = "mesh_scout"
    /\ supervisorEntries = 0
    /\ state.suspect_services = <<Service, PaymentApi, InventoryApi>>

\* The mesh events of the incident show exactly one degraded upstream,
\* payment-api, of the incident's service.
PaymentApiDegraded ==
    _find_suspects_from_mesh(state).suspects = <<PaymentApi>>

\* C16 as stated: with a degraded upstream U of the incident service S in
\* the mesh events, after mesh_scout and then metric_analyst
\* suspect_services is [S, U], suspect_edges holds S->U and evidence_refs
\* holds mesh-suspect:U and logs:U.
C16_AsStated ==
    (lastStage = "metric_analyst" /\ exc = NoExc /\ state.mesh_summary # ""
        /\ PaymentApiDegraded) =>
       /\ state.suspect_services = <<Service, PaymentApi>>
       /\ <<Service, PaymentApi>> \in SeqToSet(state.suspect_edges)
       /\ <<"mesh-suspect", PaymentApi>> \in SeqToSet(state.evidence_refs)
       /\ <<"logs", PaymentApi>> \in SeqToSet(state.evidence_refs)

\* Node k of the list lies above node i: same file, scope chain a strict
\* prefix of i's.
Above(nodes, k, i) ==
    /\ nodes[k].file_path = nodes[i].file_path
    /\ IsStrictPrefix(nodes[k].scopes, nodes[i].scopes)

Changed(status) == status \in {STATUS_MODIFIED, STATUS_ADDED}

\* No later node of the list has the file and the scope chain of node k.
LastOfItsChain(nodes, k) ==
    \A m \in (k + 1)..Len(nodes) :
        ~(nodes[m].file_path = nodes[k].file_path
            /\ nodes[m].scopes = nodes[k].scopes)

\* C17 as stated: after propagation, every node above a MODIFIED or ADDED
\* node of its file that was UNCHANGED is MODIFIED.
C17_AsStated ==
    index_pc = "text" =>
        \A i, k \in 1..Len(upsert_nodes) :
            (/\ Changed(upsert_nodes[i].status)
             /\ Above(upsert_nodes, k, i)
             /\ upsert_nodes[k].projected = STATUS_UNCHANGED)
                => upsert_nodes[k].status = STATUS_MODIFIED

\* What holds of C17: after propagation, every node above a MODIFIED or
\* ADDED node of its file that was UNCHANGED is MODIFIED, at every distance
\* up to the module node, provided it is the last node of the list with its
\* file and scope chain; a node that shares file and scope chain with a
\* later node keeps the status it had.
C17_AncestorsModified ==
    index_pc = "text" =>
        /\ \A i, k \in 1..Len(upsert_nodes) :
              (/\ Changed(upsert_nodes[i].status)
               /\ Above(upsert_nodes, k, i)
               /\ LastOfItsChain(upsert_nodes, k)
               /\ upsert_nodes[k].projected = STATUS_UNCHANGED)
                  => upsert_nodes[k].status = STATUS_MODIFIED
        /\ \A k \in 1..Len(upsert_nodes) :
              ~LastOfItsChain(upsert_nodes, k)
                  => upsert_nodes[k].status = upsert_nodes[k].projected

\* The case of C17 in a file of distinct scope chains: a MODIFIED method upgraded its class and, two levels up,
\* the module node.
C17_Witness ==
    /\ index_pc = "text"
    /\ Len(upsert_nodes) = 3
    /\ [i \in 1..3 |-> upsert_nodes[i].scopes] = <<<<>>, <<"A">>, <<"A", "B">>>>
    /\ [i \in 1..3 |-> upsert_nodes[i].projected]
          = <<STATUS_UNCHANGED, STATUS_UNCHANGED, STATUS_MODIFIED>>
    /\ \A i \in 1..3 : /\ upsert_nodes[i].file_path = "a.py"
                       /\ upsert_nodes[i].status = STATUS_MODIFIED

\* C18: propagation changes a status only from UNCHANGED to MODIFIED, and
\* only of a node that has a node below it in its own file which was
\* MODIFIED or ADDED; so ADDED, DELETED and MOVED nodes, siblings and nodes
\* of other files keep their status.
C18_OnlyUnchangedAbove ==
    index_pc = "text" =>
        \A k \in 1..Len(upsert_nodes) :
            upsert_nodes[k].status # upsert_nodes[k].projected =>
                /\ upsert_nodes[k].projected = STATUS_UNCHANGED
                /\ upsert_nodes[k].status = STATUS_MODIFIED
                /\ \E i \in 1..Len(upsert_nodes) :
                      /\ Changed(upsert_nodes[i].projected)
                      /\ Above(upsert_nodes, k, i)

\* C18 witness: a MODIFIED method of class A in a.py upgraded class A of
\* a.py and left the UNCHANGED class A of b.py as it was.
C18_Witness ==
    /\ index_pc = "text"
    /\ Len(upsert_nodes) = 3
    /\ [i \in 1..3 |-> upsert_nodes[i].file_path] = <<"a.py", "b.py", "a.py">>
    /\ [i \in 1..3 |-> upsert_nodes[i].scopes] = <<<<"A">>, <<"A">>, <<"A", "B">>>>
    /\ [i \in 1..3 |-> upsert_nodes[i].projected]
          = <<STATUS_UNCHANGED, STATUS_UNCHANGED, STATUS_MODIFIED>>
    /\ [i \in 1..3 |-> upsert_nodes[i].status]
          = <<STATUS_MODIFIED, STATUS_UNCHANGED, STATUS_MODIFIED>>

\* The lines of the range of a hunk: from its start as far as its header
\* length says, one line when the length is 0.
HunkLines(hunk) == hunk.start..(hunk.start + Max(hunk.length, 1) - 1)

\* C19: the status a parsed node gets before propagation is ADDED if the
\* diff marks the file as added; otherwise MODIFIED if the lines
\* start_line..end_line and the lines of some hunk have a line in common
\* (one is enough); otherwise UNCHANGED, so with no hunk every node is
\* UNCHANGED.
C19_ProjectedStatus ==
    index_pc \in {"propagate", "text", "upsert"} =>
        \A i \in 1..Len(upsert_nodes) :
            LET n == upsert_nodes[i]
                touched == \E h \in 1..Len(raw_diff.hunks) :
                              (n.start_line..n.end_line)
                                  \cap HunkLines(raw_diff.hunks[h]) # {}
            IN /\ n.projected =
                     IF raw_diff.added THEN STATUS_ADDED
                     ELSE IF touched THEN STATUS_MODIFIED
                     ELSE STATUS_UNCHANGED
               /\ index_pc = "propagate" => n.status = n.projected
               /\ (raw_diff.hunks = <<>> /\ ~raw_diff.added)
                     => n.projected = STATUS_UNCHANGED

\* C19 witness: a node of lines 2..3 and a hunk of lines 1..2 share line 2
\* only; the node is MODIFIED.
C19_Witness ==
    /\ index_pc = "propagate"
    /\ ~raw_diff.added
    /\ Len(raw_diff.hunks) = 1
    /\ HunkLines(raw_diff.hunks[1]) = {1, 2}
    /\ upsert_nodes[1].start_line = 2
    /\ upsert_nodes[1].end_line = 3
    /\ upsert_nodes[1].status = STATUS_MODIFIED

\* C20: when the nodes of a file are ready to be upserted, the text of each
\* is given by its status after propagation: the patch slice of its line
\* range if MODIFIED (whether by projection or by propagation), the source
\* lines start_line..end_line of the file if ADDED, empty if UNCHANGED.
C20_TextByFinalStatus ==
    index_pc = "upsert" =>
        \A i \in 1..Len(upsert_nodes) :
            LET n == upsert_nodes[i]
            IN /\ n.status = STATUS_MODIFIED =>
                     n.text = _extract_patch_text(raw_diff, n.start_line,
                                                  n.end_line)
               /\ n.status = STATUS_ADDED =>
                     n.text = [j \in 1..Cardinality(
                                   (n.start_line..n.end_line)
                                       \cap (1..file_content)) |->
                                 <<"src", n.start_line + j - 1>>]
               /\ n.status \notin {STATUS_MODIFIED, STATUS_ADDED} =>
                     n.text = <<>>

\* C20 witness: a node that the projection left UNCHANGED and propagation
\* made MODIFIED carries patch lines.
C20_Witness ==
    /\ index_pc = "upsert"
    /\ \E i \in 1..Len(upsert_nodes) :
          /\ upsert_nodes[i].projected = STATUS_UNCHANGED
          /\ upsert_nodes[i].status = STATUS_MODIFIED
          /\ upsert_nodes[i].text # <<>>

\* ------------------------------------------------------------------
\* Deletion retention (C21, C22)
\* ------------------------------------------------------------------
\* The step is _retain_deleted_nodes for the path at the head of file_paths.
RetentionStep == index_pc = "retain" /\ index_pc' = "idle"

\* The nodes of `old` are in the store after the step under their ids,
\* DELETED, without text, with their old file_path as prior_path and the
\* deleting commit as commit_sha.
RetainedInStore(old) ==
    \A n \in old :
       \E m \in graph_store' :
          /\ m.id_ = n.id_
          /\ m.status = STATUS_DELETED
          /\ m.text = <<>>
          /\ m.prior_path = n.file_path
          /\ m.commit_sha = request.commit_sha

\* The upsert of the step succeeded.
UpsertSucceeded == store_calls'[Len(store_calls')] = StoreCall("upsert", TRUE)

StepTombstone ==
    Tombstone(Head(file_paths), request.service, request.commit_sha)

\* C22: indexing a file-deleted diff for a path without node in the store
\* upserts exactly one file-level tombstone (symbol_kind file, DELETED, no
\* text, prior_path = path) and counts 1; when the only node of the path is
\* that tombstone, indexing the deletion again rewrites it and adds no
\* node; a failing upsert leaves the store as it was, counts 0, records
\* error/upsert and the loop of index_commit goes on.
C22_Tombstone ==
    [][RetentionStep =>
          LET path == Head(file_paths)
              old == NodesByPath(graph_store, path)
              tomb == StepTombstone
          IN /\ tomb.symbol_kind = "file" /\ tomb.symbol_name = path
             /\ tomb.status = STATUS_DELETED /\ tomb.text = <<>>
             /\ tomb.prior_path = path /\ tomb.file_path = path
             /\ (old = {} /\ UpsertSucceeded) =>
                   /\ graph_store' = graph_store \cup {tomb}
                   /\ Cardinality(graph_store') = Cardinality(graph_store) + 1
                   /\ total_upserted' = total_upserted + 1
                   /\ diagnostics' = diagnostics
             /\ ((\E t \in old : old = {t} /\ t.symbol_kind = "file")
                     /\ UpsertSucceeded) =>
                   /\ NodesByPath(graph_store', path) = {tomb}
                   /\ Cardinality(graph_store') = Cardinality(graph_store)
                   /\ total_upserted' = total_upserted + 1
             /\ ((old = {} \/ \E t \in old : old = {t} /\ t.symbol_kind = "file")
                     /\ ~UpsertSucceeded) =>
                   /\ graph_store' = graph_store
                   /\ total_upserted' = total_upserted
                   /\ diagnostics' =
                         Append(diagnostics,
                                IndexingDiagnostic("error", "upsert", path,
                                                   request.commit_sha))
                   /\ commit_pc' = "files"]_vars

\* The deletion of a.py was indexed by an earlier call, which wrote the
\* tombstone, and again by this one, which wrote it too: one node for a.py.
C22_Witness ==
    /\ index_pc = "idle"
    /\ Len(index_calls) = 1
    /\ index_calls[1].before = {}
    /\ index_calls[1].count = 1
    /\ \E t \in graph_store :
          /\ t.symbol_kind = "file"
          /\ NodesByPath(graph_store, "a.py") = {t}
          /\ t.id_ \in index_calls[1].written
          /\ t.id_ \in written
          /\ t.commit_sha = "c2"
          /\ total_upserted = 1

\* ------------------------------------------------------------------
\* Idempotence and node identity (C23, C24)
\* ------------------------------------------------------------------
\* C23: two consecutive calls of index_commit with the same request, on the
\* same repository content and with the store answering the calls of the
\* second run as it answered those of the first, return the same count,
\* write the same set of node ids, and the store after the second call is
\* the store after the first (as many nodes, the same properties and text).
C23_Idempotent ==
    \A i \in 1..(Len(index_calls) - 1) :
       (/\ index_calls[i].request = index_calls[i + 1].request
        /\ index_calls[i].store_calls = index_calls[i + 1].store_calls) =>
          /\ index_calls[i + 1].count = index_calls[i].count
          /\ index_calls[i + 1].written = index_calls[i].written
          /\ index_calls[i + 1].after = index_calls[i].after
          /\ Cardinality(index_calls[i + 1].after)
                = Cardinality(index_calls[i].after)

\* The same request was run twice on a store that held the nodes of a.py:
\* the first run changed the store and wrote several nodes, among them
\* nodes it retained as DELETED, and the second run has returned.
C23_Witness ==
    /\ Len(index_calls) = 2
    /\ index_calls[1].request = index_calls[2].request
    /\ index_calls[1].store_calls = index_calls[2].store_calls
    /\ index_calls[1].before # index_calls[1].after
    /\ index_calls[1].count >= 2
    /\ \E n \in index_calls[1].after :
          n.status = STATUS_DELETED /\ n.id_ \in index_calls[2].written

\* Nodes n1 written by call i and n2 written by call j are nodes of one
\* symbol that the file has at both commits: the same file and name.
SameSymbol(i, n1, j, n2) ==
    /\ n1.id_ \in index_calls[i].written
    /\ n2.id_ \in index_calls[j].written
    /\ n1.status # STATUS_DELETED
    /\ n2.status # STATUS_DELETED
    /\ n1.name # Absent
    /\ n1.file_path = n2.file_path
    /\ n1.name = n2.name

\* C24 as stated: when a file is indexed at two successive commits and a
\* symbol is in both, the second call writes the node of the first (the
\* same node_id), whatever the start lines of the symbol.
C24_AsStated ==
    \A i \in 1..(Len(index_calls) - 1) :
       index_calls[i].request.commit_sha
            # index_calls[i + 1].request.commit_sha =>
          \A n1 \in index_calls[i].after, n2 \in index_calls[i + 1].after :
             SameSymbol(i, n1, i + 1, n2) => n1.id_ = n2.id_

\* The step is the upsert of _index_file, and it succeeds.
FileUpsertStep == index_pc = "upsert" /\ index_pc' = "idle" /\ UpsertSucceeded

\* C24 (amended): when _index_file upserts a symbol of which the store has a
\* node of the same service, file, name and start line, that node is
\* updated: it is the one node of that identity, with the status and text
\* of this commit and its commit_sha.  A node of the same file and name
\* with another start line has another node_id and stays as it was, next
\* to the node this commit writes.
C24_SameStartSameNode ==
    [][FileUpsertStep =>
          \A i \in 1..Len(upsert_nodes) :
             LET new == SymbolChunk(upsert_nodes[i], request.service,
                                    request.commit_sha)
                 same(n) == /\ n.service = new.service
                            /\ n.file_path = new.file_path
                            /\ n.name = new.name
                 here(n) == same(n) /\ n.start_line = new.start_line
             IN /\ {n \in graph_store' : here(n)} = {new}
                /\ \A old \in graph_store :
                      /\ here(old) => old.id_ = new.id_
                      /\ (same(old) /\ ~here(old)) =>
                            /\ old.id_ # new.id_
                            /\ old \in graph_store']_vars

\* Class A of a.py was written at c1 and, on the same start line, at c2:
\* one node_id, the status and commit_sha of the node refreshed.
C24_Witness ==
    /\ Len(index_calls) = 2
    /\ index_calls[1].request.commit_sha = "c1"
    /\ index_calls[2].request.commit_sha = "c2"
    /\ \E n1 \in index_calls[1].after, n2 \in index_calls[2].after :
          /\ SameSymbol(1, n1, 2, n2)
          /\ n1.name = "A"
          /\ n1.id_ = n2.id_
          /\ n1.commit_sha = "c1" /\ n2.commit_sha = "c2"
          /\ n1.status = STATUS_ADDED /\ n2.status = STATUS_MODIFIED

\* ------------------------------------------------------------------
\* Failures and diagnostics of index_commit (C25, C26)
\* ------------------------------------------------------------------
\* The diagnostic _index_file records for an outcome that ends the file.
FailureDiagnostic(kind, path, sha) ==
    CASE kind = "diff_raises" -> IndexingDiagnostic("error", "diff", path, sha)
      [] kind = "file_raises" -> IndexingDiagnostic("error", "parse", path, sha)
      [] kind = "parse_raises" ->
            IndexingDiagnostic("warning", "parse", path, sha)
      [] kind = "no_nodes" -> IndexingDiagnostic("warning", "parse", path, sha)

\* The step records `diagnostic` for the file at the head of file_paths,
\* counts nothing, writes nothing and goes on with the files that remain.
FileFailsWith(diagnostic) ==
    /\ diagnostics' = Append(diagnostics, diagnostic)
    /\ total_upserted' = total_upserted
    /\ graph_store' = graph_store
    /\ file_paths' = Tail(file_paths)
    /\ commit_pc' = "files"
    /\ index_pc' = "idle"

\* C25: within index_commit a failure of get_diff, get_file, the parser or
\* the node upsert for a file adds the diagnostic of that file (error/diff,
\* error/parse, warning/parse, error/upsert), adds 0 to the count, and the
\* loop goes on with the remaining files; index_commit returns only when
\* no file is left, with the count and the diagnostics, and never raises.
C25_FailureIsDiagnostic ==
    [][/\ (commit_pc = "files" /\ file_paths # <<>>) =>
             LET path == Head(file_paths)
                 sha == request.commit_sha
                 kind == repo.file[sha, path].kind
             IN /\ (index_pc = "idle" /\ kind \in FailureKinds) =>
                      FileFailsWith(FailureDiagnostic(kind, path, sha))
                /\ (/\ index_pc \in {"upsert", "retain"}
                    /\ index_pc' = "idle"
                    /\ ~UpsertSucceeded) =>
                      FileFailsWith(IndexingDiagnostic("error", "upsert",
                                                       path, sha))
                /\ commit_pc' = "files"
       /\ (commit_pc = "files" /\ commit_pc' # "files") =>
             /\ file_paths = <<>>
             /\ commit_pc' = "returned"
             /\ index_calls'[Len(index_calls')].count = total_upserted
             /\ index_calls'[Len(index_calls')].diagnostics = diagnostics
      ]_vars

\* A call has returned in which a.py failed with a diagnostic and b.py,
\* the file after it, was indexed and counted.
C25_Witness ==
    \E i \in 1..Len(index_calls) :
       /\ Len(index_calls[i].diagnostics) = 1
       /\ index_calls[i].diagnostics[1].file_path = "a.py"
       /\ index_calls[i].diagnostics[1].severity = "error"
       /\ index_calls[i].count = 1
       /\ \E id \in index_calls[i].written : id.file_path = "b.py"


\* The runner has returned or raised.
BackfillDone == {"returned", "raised"}
OneDiagnostic(ds, severity, stage) ==
    /\ Len(ds) = 1
    /\ ds[1].severity = severity
    /\ ds[1].stage = stage

\* C26: for a service without an entry in the service-repository map,
\* index_commit returns (0, [one error diagnostic of stage resolve]) and
\* BackfillRunner.run returns (0, 0, [one error diagnostic of stage
\* backfill]); neither calls the repository adapter nor writes to the graph
\* store; onboard_service raises KeyError.
C26_UnregisteredService ==
    [][/\ (/\ commit_pc # "returned"
           /\ commit_pc' = "returned"
           /\ request.service \notin service_repo_map)
          => LET call == Last(index_calls')
             IN /\ call.count = 0
                /\ OneDiagnostic(call.diagnostics, "error", "resolve")
                /\ call.adapter_calls = 0
                /\ call.store_calls = <<>>
                /\ call.after = call.before
       /\ (/\ backfill.pc \notin BackfillDone
           /\ backfill'.pc \in BackfillDone
           /\ backfill'.service \notin service_repo_map)
          => /\ backfill'.adapter_calls = 0
             /\ index_calls' = <<>>
             /\ commit_pc' = "idle"
             /\ graph_store' = {}
             /\ IF backfill'.entry = "onboard_service"
                THEN /\ backfill'.pc = "raised"
                     /\ backfill'.raised = "KeyError"
                ELSE /\ backfill'.pc = "returned"
                     /\ backfill'.total_commits = 0
                     /\ backfill'.total_nodes = 0
                     /\ OneDiagnostic(backfill'.diagnostics,
                                      "error", "backfill")]_vars

\* C26 witness: run has returned for the unknown service, and after it an
\* index_commit call for the unknown service has returned.
C26_Witness ==
    /\ backfill.pc = "returned"
    /\ backfill.entry = "run"
    /\ backfill.service = UnknownService
    /\ commit_pc = "returned"
    /\ Len(index_calls) = 1
    /\ index_calls[1].request.service = UnknownService

RECURSIVE TotalCount(_)
TotalCount(calls) ==
    IF calls = <<>> THEN 0 ELSE calls[1].count + TotalCount(Tail(calls))
RECURSIVE AllDiagnostics(_)
AllDiagnostics(calls) ==
    IF calls = <<>> THEN <<>>
    ELSE calls[1].diagnostics \o AllDiagnostics(Tail(calls))

IsPrimitive(v) == v.type \in _PRIMITIVE
ListOfPrimitives(v) ==
    /\ v.type = "list"
    /\ \A i \in 1..Len(v.items) : IsPrimitive(v.items[i])
Handed == safe_props.done /\ safe_props.raised = ""

AllReturned(rs) == \A id \in DOMAIN rs : rs[id].pc = "returned"

\* C29: when runs for distinct incident ids execute concurrently against
\* one report repository, in every interleaving a step of one run leaves
\* the BrainState (and every other local) of the other runs as it was, and
\* once all runs have returned get(id) is, for every id, the report the run
\* for that id produced from its own state or exception.
C29_OwnStateOwnReport ==
    [][/\ \A i, j \in IncidentIds :
             (i # j /\ runs'[i] # runs[i]) => runs'[j] = runs[j]
       /\ AllReturned(runs') =>
             \A id \in IncidentIds :
                LET r == runs'[id]
                IN /\ get(repository', id) = r.report
                   /\ r.report.incident_id = id
                   /\ IF r.exc = NoExc
                      THEN /\ r.report.status \in {"completed", "escalated"}
                           /\ r.report.critic_score = r.state.critic_score
                           /\ r.report.hypotheses = r.state.hypotheses
                           /\ r.report.iteration = r.state.iteration
                      ELSE /\ r.report.status = "failed"
                           /\ r.report.errors = <<r.exc>>]_vars

\* C29 witness: both runs have returned, one with a failed report and one
\* with a completed report, and the repository holds both.
C29_Witness ==
    /\ AllReturned(runs)
    /\ runs["inc-1"].report.status = "failed"
    /\ runs["inc-77"].report.status = "completed"
    /\ get(repository, "inc-1") = runs["inc-1"].report
    /\ get(repository, "inc-77") = runs["inc-77"].report


\* The stage after which a stage may execute.
Before(stage) ==
    CASE stage = "supervisor" -> {"none", "critic"}
      [] stage = "mesh_scout" -> {"supervisor"}
      [] stage = "git_scout" -> {"mesh_scout"}
      [] stage = "metric_analyst" -> {"git_scout"}
      [] stage = "rca_synthesizer" -> {"metric_analyst"}
      [] stage = "critic" -> {"rca_synthesizer"}
      [] stage = "fix_advisor" -> {"critic"}

RefRank(ref) ==
    CASE ref[1] = "incident" -> 0
      [] ref[1] = "deploy" -> 1
      [] ref[1] \in {"mesh:observed", "mesh:depends_on"} -> 2
      [] ref[1] = "graph" -> 3
      [] ref[1] = "metric" -> 4
      [] OTHER -> 5
Ordered(ref) == RefRank(ref) < 5

\* C31: in the evidence_refs of a run the incident ref comes first, then
\* the deploy ref if any, then every mesh:* ref, then every graph:* ref,
\* then the metric ref; a logs ref appears only after the metric ref.
C31_AsStated ==
    LET refs == state.evidence_refs
    IN /\ \A i \in 1..Len(refs) : refs[i][1] = "incident" => i = 1
       /\ \A i, j \in 1..Len(refs) :
             (i < j /\ Ordered(refs[i]) /\ Ordered(refs[j]))
                => RefRank(refs[i]) <= RefRank(refs[j])
       /\ \A i \in 1..Len(refs) :
             refs[i][1] = "logs" =>
                \E j \in 1..(i - 1) : refs[j][1] = "metric"


\* The critic gave its stub score: it ran on a non-empty hypothesis list
\* without an LLM, or the JSON answer was unusable.
CriticStubStep ==
    /\ pc = "critic"
    /\ pc' # "except"
    /\ state.hypotheses # <<>>
    /\ ~config.llm \/ parseFailed'

\* The stub score formula and its decay from one iteration to the next.
StubScoreDecays ==
    CriticStubStep =>
        /\ state'.critic_score =
              Max(0, TopHypothesis(state.hypotheses).confidence
                        - 2 * (state.iteration - 1))
        /\ (~config.llm /\ state.iteration >= 2) =>
              state'.critic_score <= state.critic_score

\* A run without LLM whose stub score is below critic_threshold at
\* iteration 1 has returned.
LowStubRunReturns ==
    /\ pc' = "returned"
    /\ exc' = NoExc
    /\ ~config.llm
    /\ StubConfidence < config.critic_threshold

InRangeChange(diff, line, node_start, node_end) ==
    /\ line[1] \in {"+", "-"}
    /\ node_start <= SourceLineAt(diff.hunks[line[2]], line[3])
    /\ SourceLineAt(diff.hunks[line[2]], line[3]) <= node_end

\* C33 as stated: the patch text taken for a MODIFIED node holds only added
\* and removed lines whose source position lies within the node's range,
\* whether PatchSet parses the diff or not, and is empty when the range
\* overlaps no hunk.
C33_AsStated ==
    index_pc = "upsert" =>
        \A i \in 1..Len(upsert_nodes) :
            LET n == upsert_nodes[i]
                text == _extract_patch_text(raw_diff, n.start_line, n.end_line)
            IN n.status = STATUS_MODIFIED =>
                  /\ n.text = text
                  /\ \A k \in 1..Len(text) :
                        InRangeChange(raw_diff, text[k], n.start_line,
                                      n.end_line)
                  /\ ~_overlaps(n.start_line, n.end_line,
                                _parse_hunks(raw_diff)) => text = <<>>

\* ------------------------------------------------------------------
\* CONTAINS relations (C34, C35)
\* ------------------------------------------------------------------
\* The relation step of _index_file ran on the nodes of a file and did not
\* raise, on a store without relations.
RelationsUpserted ==
    /\ index_pc = "upsert"
    /\ index_pc' = "idle"
    /\ store_calls'[Len(store_calls')] = StoreCall("upsert", TRUE)
    /\ ~relations_raised'
    /\ relations = {}

\* metadata["node_id"] of node k of upsert_nodes.
NodeId(k) ==
    SymbolChunk(upsert_nodes[k], request.service, request.commit_sha).id_

\* The scope chain of node p is that of node c without its last element.
ChainParent(p, c) ==
    /\ upsert_nodes[c].scopes # <<>>
    /\ upsert_nodes[p].scopes =
          SubSeq(upsert_nodes[c].scopes, 1, Len(upsert_nodes[c].scopes) - 1)

\* C34 as stated: among the nodes upserted for one file, a CONTAINS edge
\* P -> C is emitted iff P's scope chain equals C's without its last
\* element; there is no self-loop, every node has at most one incoming
\* edge, and every edge connects two nodes of the file.
C34_AsStated ==
    [][RelationsUpserted =>
          /\ \A p, c \in 1..Len(upsert_nodes) :
                Relation(NodeId(p), NodeId(c)) \in relations'
                    <=> ChainParent(p, c)
          /\ \A e \in relations' :
                /\ e.source_id # e.target_id
                /\ \A f \in relations' :
                      f.target_id = e.target_id => f = e
                /\ \E p, c \in 1..Len(upsert_nodes) :
                      e = Relation(NodeId(p), NodeId(c))]_vars

\* The node upsert of a file succeeded and the relation step raised.
RelationsFailed ==
    /\ index_pc = "upsert"
    /\ index_pc' = "idle"
    /\ store_calls'[Len(store_calls')] = StoreCall("upsert", TRUE)
    /\ relations_raised'

\* C35: when building or upserting the CONTAINS edges of a file raises, the
\* nodes of the file are counted and are in the store as upserted, no
\* diagnostic is added, and the loop of index_commit goes on with the
\* remaining files.
C35_RelationFailureIgnored ==
    [][RelationsFailed =>
          /\ total_upserted' = total_upserted + Len(upsert_nodes)
          /\ graph_store' =
                StoreUpsert(graph_store,
                            [i \in 1..Len(upsert_nodes) |->
                                SymbolChunk(upsert_nodes[i], request.service,
                                            request.commit_sha)])
          /\ diagnostics' = diagnostics
          /\ commit_pc' = "files"
          /\ file_paths' = Tail(file_paths)]_vars

\* C35 witness: index_commit returned the count of both files and no
\* diagnostic although the relation step of the last file, b.py, raised
\* (and a.py, with its class A, was indexed before it).
C35_Witness ==
    /\ commit_pc = "returned"
    /\ relations_raised
    /\ total_upserted = 3
    /\ diagnostics = <<>>
    /\ store_calls = <<StoreCall("upsert", TRUE), StoreCall("upsert", TRUE)>>

\* ------------------------------------------------------------------
\* The store keeps its nodes (C36)
\* ------------------------------------------------------------------
NodeIds(store) == {n.id_ : n \in store}

\* C36: no step of index_commit or of the backfill runner, deletions and
\* failed upserts included, takes a node id out of the store.
C36_StoreNeverShrinks ==
    [][NodeIds(graph_store) \subseteq NodeIds(graph_store')]_vars

\* C36 witness: a backfill returned after an upsert failed and a.py was
\* deleted with no node of it found; the store holds the module and the
\* class of a.py, its file tombstone and the module of b.py.
C36_Witness ==
    /\ backfill.pc = "returned"
    /\ backfill.diagnostics # <<>>
    /\ \E n \in graph_store : n.symbol_kind = "file"
    /\ Cardinality(NodeIds(graph_store)) = 4

\* ------------------------------------------------------------------
\* mesh_scout with a mesh driver (C37)
\* ------------------------------------------------------------------
\* mesh_scout has returned from the graph traversal of its driver.
MeshTraversed ==
    /\ pc = "git_scout"
    /\ exc = NoExc
    /\ config.mesh_driver.present
    /\ ~config.mesh_driver.raises

DriverRows == config.mesh_driver.rows
Dependencies == {DriverRows[i].svc : i \in 1..Len(DriverRows)}
ObservedRows(d) ==
    {r \in SeqToSet(DriverRows) : r.svc = d /\ r.call_count > 0}
ObservedDeps == {d \in Dependencies : ObservedRows(d) # {}}

\* C37: after the graph traversal suspect_services is the incident's
\* service, then the observed dependencies by descending score, then the
\* dependencies that are not observed, each once; suspect_edges holds
\* service->d for exactly the observed dependencies d; and evidence_refs
\* holds for every dependency one ref, mesh:observed:d or
\* mesh:depends_on:d.
C37_MeshRanking ==
    MeshTraversed =>
        LET L == state.suspect_services
        IN /\ L[1] = Service
           /\ \A i, j \in 1..Len(L) : L[i] = L[j] => i = j
           /\ SeqToSet(L) = {Service} \cup Dependencies
           /\ \A i, j \in 2..Len(L) :
                 i < j =>
                    /\ L[j] \in ObservedDeps => L[i] \in ObservedDeps
                    /\ L[j] \in ObservedDeps =>
                          \E ri \in ObservedRows(L[i]) :
                             \A rj \in ObservedRows(L[j]) : ~ScoreAbove(rj, ri)
           /\ SeqToSet(state.suspect_edges) =
                 {<<Service, d>> : d \in ObservedDeps}
           /\ \A d \in Dependencies :
                 Cardinality({k \in 1..Len(state.evidence_refs) :
                                 state.evidence_refs[k] \in
                                     {<<"mesh:observed", d>>,
                                      <<"mesh:depends_on", d>>}}) = 1
           /\ \A d \in Dependencies :
                 <<"mesh:observed", d>> \in SeqToSet(state.evidence_refs)
                     <=> d \in ObservedDeps

\* C37 witness: payment-api (score 2) was returned before inventory-api
\* (score 5), and inventory-api is ranked first.
C37_Witness ==
    /\ MeshTraversed
    /\ DriverRows = <<MeshRow(PaymentApi, 1, 10, 100),
                      MeshRow(InventoryApi, 5, 10, 0)>>
    /\ state.suspect_services = <<Service, InventoryApi, PaymentApi>>
    /\ state.suspect_edges = <<<<Service, InventoryApi>>,
                               <<Service, PaymentApi>>>>

\* ------------------------------------------------------------------
\* The raw-event fallback and the baseline (C38)
\* ------------------------------------------------------------------
\* The calls of the incident's service to upstream u in the incident
\* window, and the latencies of its calls to u in the 30 minutes before.
CurrentCalls(u) ==
    SelectSeq(UsableEvents(incident.mesh_events),
              LAMBDA e : e.upstream = u /\ e.when = "current")
OwnBaseline(u) ==
    LET own == SelectSeq(UsableEvents(incident.mesh_events),
                         LAMBDA e : e.upstream = u /\ e.when = "baseline")
    IN [i \in 1..Len(own) |-> own[i].latency_ms]

\* C38 as stated: after the raw-event fallback of mesh_scout an upstream U
\* is a suspect iff the incident's service called it in the incident window
\* and its stats there are degraded against the baseline of U's own events
\* of the 30 minutes before; events of other upstreams have no part in it.
C38_AsStated ==
    (pc = "git_scout" /\ exc = NoExc) =>
        \A u \in {PaymentApi, InventoryApi} :
            u \in SeqToSet(state.suspect_services)
                <=> /\ CurrentCalls(u) # <<>>
                    /\ Degraded(CurrentCalls(u), OwnBaseline(u))

\* ------------------------------------------------------------------
\* A failing report-log write (C39)
\* ------------------------------------------------------------------
\* Writing the report log raised.
LogWriteRaised == pc = "log" /\ pc' # "returned"

\* C39 as stated: when writing the log raises after a completed or
\* escalated report was saved, run returns that report and the repository
\* holds it; run never raises; and the repository is written once per run.
C39_AsStated ==
    [][/\ (LogWriteRaised /\ report.status \in {"completed", "escalated"}) =>
             /\ pc' = "returned"
             /\ report' = report
             /\ repository'[incident.incident_id] = report
       /\ pc' # "raised"
       /\ repository' # repository => report = NoReport]_vars

\* ------------------------------------------------------------------
\* The order of the commits of a backfill (C40)
\* ------------------------------------------------------------------
\* run has returned and index_calls holds its calls of index_commit.
BackfillReturned ==
    /\ backfill.pc = "returned"
    /\ commit_pc = "returned"
    /\ Len(index_calls) = Len(backfill.commit_shas)

\* The calls of index_commit follow list_commits, each on the store the
\* call before it left.
InListOrder ==
    /\ \A k \in 1..Len(index_calls) :
          index_calls[k].request.commit_sha = backfill.commit_shas[k]
    /\ \A k \in 1..(Len(index_calls) - 1) :
          index_calls[k + 1].before = index_calls[k].after

\* The last call that wrote node id, 0 when there is none.
LastWriter(id) ==
    LET ks == {k \in 1..Len(index_calls) : id \in index_calls[k].written}
    IN IF ks = {} THEN 0 ELSE CHOOSE k \in ks : \A m \in ks : m <= k

\* A node of the store is as the last commit of the list that wrote it
\* left it.
LastWriterWins ==
    \A n \in graph_store :
        LastWriter(n.id_) # 0 =>
            /\ n \in index_calls[LastWriter(n.id_)].after
            /\ n.commit_sha = backfill.commit_shas[LastWriter(n.id_)]

\* Call i tombstoned path and the later call j wrote live nodes of it.
TombstonedThenWritten(i, j, path) ==
    /\ i < j
    /\ \E m \in index_calls[i].after :
          /\ m.file_path = path
          /\ m.status = STATUS_DELETED
          /\ m.id_ \in index_calls[i].written
    /\ \E m \in index_calls[j].after :
          /\ m.file_path = path
          /\ m.status # STATUS_DELETED
          /\ m.id_ \in index_calls[j].written

\* C40 as stated: the commits are indexed one after another in the order
\* of list_commits, a node is left as the last commit that wrote it left
\* it, and a file that an earlier commit of the list tombstoned has no
\* DELETED node once a later commit that contains it was indexed.
C40_AsStated ==
    BackfillReturned =>
        /\ InListOrder
        /\ LastWriterWins
        /\ \A i, j \in 1..Len(index_calls), path \in Files :
              TombstonedThenWritten(i, j, path) =>
                 \A m \in index_calls[j].after :
                    m.file_path = path => m.status # STATUS_DELETED

\* C40 (amended): the same, but of the nodes that the earlier commit
\* tombstoned only those that the later commit writes again are live
\* after it; a file-level tombstone and the other nodes stay as they were
\* before the later commit.
C40_LastCommitWins ==
    BackfillReturned =>
        /\ InListOrder
        /\ LastWriterWins
        /\ \A i, j \in 1..Len(index_calls), path \in Files :
              TombstonedThenWritten(i, j, path) =>
                 \A m \in index_calls[j].after :
                    m.file_path = path =>
                       IF m.id_ \in index_calls[j].written
                       THEN /\ m.status # STATUS_DELETED
                            /\ m.commit_sha = backfill.commit_shas[j]
                       ELSE m \in index_calls[j].before

\* C40 witness: list_commits returned c1, c3, c2; c3 tombstoned the module
\* and the class of a.py, c2, indexed last, wrote both again.
C40_Witness ==
    /\ BackfillReturned
    /\ backfill.commit_shas = <<"c1", "c3", "c2">>
    /\ \A k \in 1..3 : Cardinality(index_calls[k].written) = 3
    /\ \A m \in index_calls[2].after :
          m.file_path = "a.py" => m.status = STATUS_DELETED
    /\ \A m \in graph_store : m.status # STATUS_DELETED
    /\ \A m \in graph_store : m.commit_sha = "c2"

====
